---- MODULE Spec2Model ----
(***************************************************************************)
(* BookMind: the chapter locator (pdfService.findChapterText), the remote  *)
(* analysis client's request shaping (geminiService), the view state of    *)
(* the two App variants (single book, library of book sessions), the audio *)
(* engine of the two AnalysisView versions and the request loop of the     *)
(* chunked generateSpeech.                                                 *)
(*                                                                         *)
(* A JavaScript string is a sequence of one-character strings; the         *)
(* source's 0-based index i is element i+1 of the sequence.                *)
(***************************************************************************)
EXTENDS Integers, Sequences, FiniteSets, TLC

\* A call of findChapterText: its arguments, its outcome, and where it stands.
VARIABLES fullText, chapterTitle, nextChapterTitle, located, lpc, built

\* A call of findChapterText on a long document: the document and the text
\* returned, both written as runs of equal characters.
VARIABLES docRuns, capped

\* A call of analyzeChapterContent: its arguments, its outcome, and where it
\* stands.
VARIABLES aChapterText, aPdfBase64, aType, aOutcome, apc

\* The App component: which variant runs, and its useState cells.
VARIABLES variant, sessions, activeSessionId, isLibraryOpen, step, pdfText,
          pdfBase64, isScannedMode, chapters, selectedChapter, currentAnalysis,
          currentAnalysisType, loading, error

\* The asynchronous calls of the App that await a result (an upload records
\* the call it awaits, the scanned mode its extraction left in the view and
\* the identification request it sent), the number of handleFileSelect and
\* handleChapterAnalysis calls made so far, the clock Date.now() reads, the
\* file whose chapter list the view holds, and what the latest call of
\* handleChapterAnalysis saw and did. The clock counts milliseconds from 1
\* and need not advance between two readings.
VARIABLES uploads, analyses, nUploads, nAnalyses, now, shownBook, lastCall

\* The AnalysisView: which version runs, whether it is mounted and the
\* analysis it is given; its useState cells and refs (pauseOffsetRef is
\* pausedAtRef in the basic version, audioBuffer its audioCache: 0 or the
\* number of the text it was synthesised from); the audio context's clock
\* and whether it is closed; the source nodes created so far; the play calls
\* awaiting generateSpeech; the 'ended' events queued; the handler called
\* last, and how many calls in succession have stopped playback since it
\* last played (2 stands for two or more).
VARIABLES version, mounted, analysis, isPlaying, isPaused, isGeneratingAudio,
          audioBuffer, currentTime, duration, sourceNodeRef, startTimeRef,
          pauseOffsetRef, ctxTime, ctxClosed, nodes, speech, ended, op, stops

\* A call of generateSpeech: the chunks of the text, the loop's position,
\* the requests in flight, the chunks requested and the responses received
\* in order of time, the segments pushed, the outcome, and where it stands.
VARIABLES safeText, chunks, chunkIdx, inFlight, issued, answers,
          audioSegments, speechResult, tpc

locVars ==
    <<fullText, chapterTitle, nextChapterTitle, located, lpc, built, docRuns, capped>>

svcVars == <<aChapterText, aPdfBase64, aType, aOutcome, apc>>

viewVars ==
    <<variant, sessions, activeSessionId, isLibraryOpen, step, pdfText, pdfBase64,
      isScannedMode, chapters, selectedChapter, currentAnalysis,
      currentAnalysisType, loading, error>>

asyncVars ==
    <<uploads, analyses, nUploads, nAnalyses, now, shownBook, lastCall>>

appVars == <<viewVars, asyncVars>>

audVars ==
    <<version, mounted, analysis, isPlaying, isPaused, isGeneratingAudio,
      audioBuffer, currentTime, duration, sourceNodeRef, startTimeRef,
      pauseOffsetRef, ctxTime, ctxClosed, nodes, speech, ended, op, stops>>

ttsVars ==
    <<safeText, chunks, chunkIdx, inFlight, issued, answers, audioSegments,
      speechResult, tpc>>

vars == <<locVars, svcVars, appVars, audVars, ttsVars>>

-----------------------------------------------------------------------------
(* String primitives of the JavaScript runtime used by the source.         *)

Min(a, b) == IF a <= b THEN a ELSE b

SetMin(S) == CHOOSE x \in S : \A y \in S : x <= y

\* The characters \s matches (and trim() removes) among those the model uses.
WhiteSpace == {" ", "\t", "\n"}

IsSpace(c) == c \in WhiteSpace

\* \d without the unicode flag.
Digits == {"0", "1", "2", "3", "4", "5", "6", "7", "8", "9"}

UpperCase ==
    <<"A", "B", "C", "D", "E", "F", "G", "H", "I", "J", "K", "L", "M",
      "N", "O", "P", "Q", "R", "S", "T", "U", "V", "W", "X", "Y", "Z">>

LowerCase ==
    <<"a", "b", "c", "d", "e", "f", "g", "h", "i", "j", "k", "l", "m",
      "n", "o", "p", "q", "r", "s", "t", "u", "v", "w", "x", "y", "z">>

\* Case folding of the 'i' flag.
CaseFold ==
    [c \in {UpperCase[i] : i \in 1..Len(UpperCase)} |->
        LowerCase[CHOOSE i \in 1..Len(UpperCase) : UpperCase[i] = c]]

ToLower(c) == IF c \in DOMAIN CaseFold THEN CaseFold[c] ELSE c

\* String.prototype.slice(a, b) for 0 <= a and 0 <= b.
Slice(s, a, b) == SubSeq(s, Min(a, Len(s)) + 1, Min(b, Len(s)))

\* First 0-based position >= p of s that holds no white space (Len(s) if none).
RECURSIVE SkipSpaces(_, _)
SkipSpaces(s, p) ==
    IF p < Len(s) /\ IsSpace(s[p + 1]) THEN SkipSpaces(s, p + 1) ELSE p

\* First 0-based position >= p of s that holds no digit (Len(s) if none).
RECURSIVE SkipDigits(_, _)
SkipDigits(s, p) ==
    IF p < Len(s) /\ s[p + 1] \in Digits THEN SkipDigits(s, p + 1) ELSE p

\* First 0-based position >= p of s that holds white space (Len(s) if none).
RECURSIVE SkipWord(_, _)
SkipWord(s, p) ==
    IF p < Len(s) /\ ~IsSpace(s[p + 1]) THEN SkipWord(s, p + 1) ELSE p

\* Length of s without its trailing white space.
RECURSIVE TrimmedEnd(_, _)
TrimmedEnd(s, n) ==
    IF n > 0 /\ IsSpace(s[n]) THEN TrimmedEnd(s, n - 1) ELSE n

\* String.prototype.trim().
Trim(s) ==
    LET a == SkipSpaces(s, 0)
        b == TrimmedEnd(s, Len(s))
    IN  IF a >= b THEN <<>> ELSE SubSeq(s, a + 1, b)

\* The maximal runs of non-white-space characters of s, in order.
RECURSIVE WordsFrom(_, _)
WordsFrom(s, p) ==
    IF p >= Len(s) THEN <<>>
    ELSE IF IsSpace(s[p + 1]) THEN WordsFrom(s, SkipSpaces(s, p))
    ELSE LET q == SkipWord(s, p)
         IN  <<SubSeq(s, p + 1, q)>> \o WordsFrom(s, q)

\* String.prototype.split(/\s+/): the pieces between the white-space runs,
\* an empty piece before a leading run and after a trailing one.
RECURSIVE SplitFrom(_, _, _)
SplitFrom(s, p, cur) ==
    IF p >= Len(s) THEN <<cur>>
    ELSE IF IsSpace(s[p + 1]) THEN <<cur>> \o SplitFrom(s, SkipSpaces(s, p), <<>>)
    ELSE SplitFrom(s, p + 1, Append(cur, s[p + 1]))

SplitWhiteSpace(s) == SplitFrom(s, 0, <<>>)

\* Array.prototype.join(' ').
RECURSIVE JoinSpace(_)
JoinSpace(ws) ==
    IF Len(ws) = 0 THEN <<>>
    ELSE IF Len(ws) = 1 THEN ws[1]
    ELSE ws[1] \o <<" ">> \o JoinSpace(Tail(ws))

-----------------------------------------------------------------------------
(* pdfService.findChapterText                                              *)

\* createFlexiblePattern: the text is trimmed, its white-space runs collapsed
\* to one space, every regex metacharacter escaped, and the words joined by
\* \s+. The compiled pattern is the list of its literal words; the empty list
\* is the empty pattern.
createFlexiblePattern(text) == WordsFrom(text, 0)

\* The literal word w stands at 0-based position p of s (flag 'i').
MatchWord(w, s, p) ==
    /\ p + Len(w) <= Len(s)
    /\ \A k \in 1..Len(w) : ToLower(s[p + k]) = ToLower(w[k])

\* The end (exclusive) of the match of the words k.. of pattern pat that begins
\* at position p of s, or -1. \s+ is greedy and the word after it begins with
\* a non-space, so the match at a position is unique.
RECURSIVE MatchEnd(_, _, _, _)
MatchEnd(pat, k, s, p) ==
    IF k > Len(pat) THEN p
    ELSE IF ~MatchWord(pat[k], s, p) THEN -1
    ELSE LET q == p + Len(pat[k])
         IN  IF k = Len(pat) THEN q
             ELSE IF q < Len(s) /\ IsSpace(s[q + 1])
                  THEN MatchEnd(pat, k + 1, s, SkipSpaces(s, q))
                  ELSE -1

\* RegExp.prototype.exec with lastIndex = from: the index of the leftmost
\* match at or after from, or -1 (null).
Exec(pat, s, from) ==
    LET hits == {i \in from..Len(s) : MatchEnd(pat, 1, s, i) # -1}
    IN  IF hits = {} THEN -1 ELSE SetMin(hits)

\* The loop `while ((match = regex.exec(fullText)) !== null) matches.push(match.index)`
\* of a global regex: every search resumes at the end of the previous match.
\* Only for a non-empty pattern: with the empty one lastIndex never advances.
RECURSIVE ExecAll_Overlapping(_, _, _)
ExecAll_Overlapping(pat, s, lastIndex) ==
    LET i == Exec(pat, s, lastIndex)
    IN  IF i = -1 THEN <<>>
        ELSE <<i>> \o ExecAll_Overlapping(pat, s, i + 1)

RECURSIVE ExecAll(_, _, _)
ExecAll(pat, s, lastIndex) ==
    LET i == Exec(pat, s, lastIndex)
    IN  IF i = -1 THEN <<>>
        ELSE <<i>> \o ExecAll(pat, s, MatchEnd(pat, 1, s, i))

\* The table-of-contents heuristic applied to a list of match indexes:
\* matches[0] < fullText.length * 0.05 (exactly 20 * matches[0] < length).
TocAvoid_NeverSkips(matches, len) ==
    IF Len(matches) > 0 THEN matches[1] ELSE -1

TocAvoid(matches, len) ==
    IF Len(matches) > 0
    THEN IF Len(matches) > 1 /\ 20 * matches[1] < len THEN matches[2] ELSE matches[1]
    ELSE -1

\* chapterTitle.match(/^(Chapter\s+\d+|Part\s+\d+)/i): the matched prefix, or
\* the empty string when there is none.
KeywordNumber(kw, title) ==
    LET n == Len(kw)
        w == SkipSpaces(title, n)
        d == SkipDigits(title, w)
    IN  IF MatchWord(kw, title, 0) /\ w > n /\ d > w THEN SubSeq(title, 1, d) ELSE <<>>

numberMatch(title) ==
    LET c == KeywordNumber(<<"C", "h", "a", "p", "t", "e", "r">>, title)
    IN  IF c # <<>> THEN c ELSE KeywordNumber(<<"P", "a", "r", "t">>, title)

CHAR_LIMIT == 1000000

TruncationMarker ==
    <<".", ".", ".", " ", "[", "T", "e", "x", "t", " ", "t", "r", "u", "n", "c", "a", "t", "e", "d", "]">>

\* Fallback 1: the first 8 pieces of title.split(/\s+/), first match only.
shortTitle(title) ==
    LET words == SplitWhiteSpace(title)
    IN  JoinSpace(SubSeq(words, 1, Min(Len(words), 8)))

Tier2_WithTocAvoid(fullText_, title) ==
    IF Len(SplitWhiteSpace(title)) > 3
    THEN TocAvoid(ExecAll(createFlexiblePattern(shortTitle(title)), fullText_, 0), Len(fullText_))
    ELSE -1

Tier2(fullText_, title) ==
    IF Len(SplitWhiteSpace(title)) > 3
    THEN Exec(createFlexiblePattern(shortTitle(title)), fullText_, 0)
    ELSE -1

\* Fallback 2: the "Chapter N" / "Part N" prefix, with the heuristic of tier 1.
Tier3(fullText_, title) ==
    LET nm == numberMatch(title)
    IN  IF nm # <<>>
        THEN TocAvoid(ExecAll(createFlexiblePattern(nm), fullText_, 0), Len(fullText_))
        ELSE -1

Tier1(fullText_, title) ==
    TocAvoid(ExecAll(createFlexiblePattern(title), fullText_, 0), Len(fullText_))

StartIndex(fullText_, title) ==
    LET t1 == Tier1(fullText_, title)
    IN  IF t1 # -1 THEN t1
        ELSE LET t2 == Tier2(fullText_, title)
             IN  IF t2 # -1 THEN t2 ELSE Tier3(fullText_, title)

\* The offset the search for the next chapter's title starts at.
NextOffset_AtStart(startIndex, title) == startIndex

NextOffset(startIndex, title) == startIndex + Min(Len(title), 50)

\* The end boundary; next = <<>> stands for null and for '' (both falsy).
EndIndex(fullText_, title, next, startIndex) ==
    IF next # <<>>
    THEN LET offset == NextOffset(startIndex, title)
             searchContext == Slice(fullText_, offset, Len(fullText_))
             nextMatch == Exec(createFlexiblePattern(next), searchContext, 0)
         IN  IF nextMatch # -1 THEN offset + nextMatch ELSE Len(fullText_)
    ELSE Len(fullText_)

\* The span without the cap.
Extracted_Uncapped(fullText_, startIndex, endIndex) ==
    Slice(fullText_, startIndex, endIndex)

\* The span [startIndex, endIndex), capped at CHAR_LIMIT characters.
Extracted(fullText_, startIndex, endIndex) ==
    LET extracted == Slice(fullText_, startIndex, endIndex)
    IN  IF Len(extracted) > CHAR_LIMIT
        THEN Slice(extracted, 0, CHAR_LIMIT) \o TruncationMarker
        ELSE extracted

\* The outcome of a call: kind "text" (the returned string is .text, cut from
\* [startIndex, endIndex) of the document), "null" (not found), or "hang" (the
\* match-collecting loop of an empty title pattern does not end).
NotFound == [kind |-> "null", startIndex |-> -1, endIndex |-> -1, text |-> <<>>]

Hang == [kind |-> "hang", startIndex |-> -1, endIndex |-> -1, text |-> <<>>]

findChapterText(fullText_, title, next) ==
    IF createFlexiblePattern(title) = <<>> THEN Hang
    ELSE LET startIndex == StartIndex(fullText_, title)
         IN  IF startIndex = -1 THEN NotFound
             ELSE LET endIndex == EndIndex(fullText_, title, next, startIndex)
                  IN  [kind |-> "text", startIndex |-> startIndex, endIndex |-> endIndex,
                       text |-> Trim(Extracted(fullText_, startIndex, endIndex))]

\* A string as its runs of equal characters, and back.
RunStarts(s) == {i \in 1..Len(s) : i = 1 \/ s[i] # s[i - 1]}

RECURSIVE RunsFrom(_, _, _)
RunsFrom(s, starts, i) ==
    IF {j \in starts : j > i} = {}
    THEN <<[c |-> s[i], n |-> Len(s) - i + 1]>>
    ELSE <<[c |-> s[i], n |-> SetMin({j \in starts : j > i}) - i]>>
         \o RunsFrom(s, starts, SetMin({j \in starts : j > i}))

RunLengths(s) == IF Len(s) = 0 THEN <<>> ELSE RunsFrom(s, RunStarts(s), 1)

RECURSIVE Expand(_)
Expand(runs) ==
    IF runs = <<>> THEN <<>>
    ELSE [i \in 1..runs[1].n |-> runs[1].c] \o Expand(Tail(runs))

\* The outcome r of a call with its text written as runs.
Capped(r) ==
    [kind |-> r.kind, startIndex |-> r.startIndex, endIndex |-> r.endIndex,
     runs |-> RunLengths(r.text)]

NotCapped == [kind |-> "null", startIndex |-> -1, endIndex |-> -1, runs |-> <<>>]

-----------------------------------------------------------------------------
(* geminiService: the requests identifyChapters and analyzeChapterContent  *)
(* build. A base64 document is an opaque token; "" is the empty string and *)
(* stands for undefined as well (both falsy).                              *)

\* The null of a `string | null` argument. It is no string of the model: its
\* one element is not a character.
null == <<"null">>

\* The request of identifyChapters(pdfText, pdfBase64): the document when
\* pdfBase64 is truthy, else the first 60000 characters of the text.
identifyChapters(pdfText_, pdfBase64_) ==
    IF pdfBase64_ # ""
    THEN [inlineData |-> pdfBase64_, text |-> <<>>]
    ELSE [inlineData |-> "", text |-> Slice(pdfText_, 0, 60000)]

\* The content path analyzeChapterContent takes: kind "text" (the chapter text
\* goes into the prompt), "document" (the whole PDF is attached) or "throw"
\* (insufficient content: no request is made).
analyzeChapterContent(title, chapterText, type, pdfBase64_) ==
    IF chapterText # null /\ chapterText # <<>> /\ Len(chapterText) > 100
    THEN [kind |-> "text", title |-> title, type |-> type,
          text |-> chapterText, inlineData |-> ""]
    ELSE IF pdfBase64_ # ""
    THEN [kind |-> "document", title |-> title, type |-> type,
          text |-> <<>>, inlineData |-> pdfBase64_]
    ELSE [kind |-> "throw", title |-> title, type |-> type,
          text |-> <<>>, inlineData |-> ""]

\* No call of analyzeChapterContent yet.
NoOutcome == [kind |-> "none", title |-> <<>>, type |-> "standard",
              text |-> <<>>, inlineData |-> ""]

InsufficientContent == "Insufficient content to analyze. Neither text nor PDF data provided."

\* AnalysisType, an enumeration.
AnalysisType == {"standard", "detailed", "insights", "critical"}

-----------------------------------------------------------------------------
(* pdfService.extractTextFromPDF. A PDF is the sequence of its pages, each *)
(* page the text of its items joined by spaces.                            *)

DigitChar == <<"0", "1", "2", "3", "4", "5", "6", "7", "8", "9">>

\* The decimal digits of i, as `${i}` formats it.
RECURSIVE DecimalString(_)
DecimalString(i) ==
    IF i < 10 THEN <<DigitChar[i + 1]>>
    ELSE DecimalString(i \div 10) \o <<DigitChar[(i % 10) + 1]>>

PageHeader(i) ==
    <<"-", "-", "-", " ", "P", "a", "g", "e", " ">> \o DecimalString(i)
        \o <<" ", "-", "-", "-", "\n">>

\* fullText and totalContentLength as the page loop leaves them, from page i on.
RECURSIVE PagesText(_, _)
PagesText(pages, i) ==
    IF i > Len(pages) THEN <<>>
    ELSE (IF Len(Trim(pages[i])) > 0
          THEN PageHeader(i) \o pages[i] \o <<"\n", "\n">>
          ELSE <<>>) \o PagesText(pages, i + 1)

RECURSIVE TotalContentLength(_, _)
TotalContentLength(pages, i) ==
    IF i > Len(pages) THEN 0
    ELSE Len(Trim(pages[i])) + TotalContentLength(pages, i + 1)

\* isScanned: numPages > 0 && totalContentLength / numPages < 50.
extractTextFromPDF(pages) ==
    [text |-> Trim(PagesText(pages, 1)),
     isScanned |-> Len(pages) > 0 /\ TotalContentLength(pages, 1) < 50 * Len(pages)]

-----------------------------------------------------------------------------
(* The books the user uploads and what the remote service answers.         *)

Fill(n) == [i \in 1..n |-> "x"]

One == <<"O", "n", "e">>

Two == <<"T", "w", "o">>

\* A text book of one page: a table of contents, then chapter One (253
\* characters) and chapter Two (153 characters).
TextBookPage ==
    One \o <<" ">> \o Two \o <<" ">> \o Fill(75) \o One \o Fill(250) \o Two \o Fill(150)

\* A text page too short for text mode that the extractor does not flag.
ShortPage == One \o Fill(97)

Files == {"text.pdf", "scan.pdf", "short.pdf"}

\* The pages of each file; scan.pdf holds two pages without any text item.
FilePages(f) ==
    CASE f = "text.pdf" -> <<TextBookPage>>
      [] f = "scan.pdf" -> << <<>>, <<>> >>
      [] f = "short.pdf" -> <<ShortPage>>

\* convertFileToBase64: the base64 payload of the file's data URL.
convertFileToBase64(f) == "base64:" \o f

\* The chapter list the remote service identifies in a file (description is
\* display text and left out).
IdentifiedChapters(f) ==
    IF f = "text.pdf"
    THEN <<[number |-> "1", title |-> One], [number |-> "2", title |-> Two]>>
    ELSE <<[number |-> "1", title |-> One]>>

\* What extractTextFromPDF returns for file f.
Extraction(f) == extractTextFromPDF(FilePages(f))

-----------------------------------------------------------------------------
(* App: the view state and the handlers of both variants. part_000 is the  *)
(* single-session App, part_001 the library App.                           *)

\* selectedChapter = null.
NoChapter == [number |-> "", title |-> <<>>]

\* The analysis text: '' (req = 0), or the text the remote service returned
\* for request req.
EmptyText == [req |-> 0]

AnalysisOf(id) == [req |-> id]

NoRequest == [inlineData |-> "", text |-> <<>>]

\* What the latest call of handleChapterAnalysis saw and did: the scanned
\* mode and the book on screen, what findChapterText returned (kind
\* "bypassed" when it was not called) and the outcome of
\* analyzeChapterContent.
NoCall == [n |-> 0, isScannedMode |-> FALSE, book |-> "", located |-> NotFound,
           request |-> NoOutcome]

\* The uploads and chapter analyses a behaviour starts, together.
MaxRequests == 3

\* The analysis types the user picks among.
Types == {"standard", "detailed"}

AppStart(v) ==
    /\ variant = v
    /\ sessions = <<>>
    /\ activeSessionId = 0
    /\ isLibraryOpen = FALSE
    /\ step = "upload"
    /\ pdfText = <<>>
    /\ pdfBase64 = ""
    /\ isScannedMode = FALSE
    /\ chapters = <<>>
    /\ selectedChapter = NoChapter
    /\ currentAnalysis = EmptyText
    /\ currentAnalysisType = "standard"
    /\ loading = FALSE
    /\ error = ""
    /\ uploads = {}
    /\ analyses = {}
    /\ nUploads = 0
    /\ nAnalyses = 0
    /\ now = 0
    /\ shownBook = ""
    /\ lastCall = NoCall

\* The scanned mode handleFileSelect decides from the extractor's answer.
finalIsScanned(x) == x.isScanned \/ Len(x.text) < 500

\* handleFileSelect up to its first await. The FileUpload component is shown
\* on the upload step; its picker is disabled while loading, its drop zone is
\* not.
HandleFileSelect(f) ==
    /\ step = "upload"
    /\ nUploads + nAnalyses < MaxRequests
    /\ loading' = TRUE
    /\ error' = ""
    /\ isScannedMode' = FALSE
    /\ nUploads' = nUploads + 1
    /\ uploads' = uploads \cup
          {[id |-> nUploads + 1, file |-> f, pc |-> "convert", mode |-> FALSE,
            request |-> NoRequest]}
    /\ UNCHANGED <<variant, sessions, activeSessionId, isLibraryOpen, step, pdfText,
                   pdfBase64, chapters, selectedChapter, currentAnalysis,
                   currentAnalysisType, analyses, nAnalyses, now, shownBook>>
    /\ UNCHANGED <<locVars, svcVars, audVars, ttsVars, lastCall>>

\* convertFileToBase64 resolves: setPdfBase64, then extractTextFromPDF is called.
ConvertResolves(u) ==
    /\ u \in uploads /\ u.pc = "convert"
    /\ pdfBase64' = convertFileToBase64(u.file)
    /\ uploads' = (uploads \ {u}) \cup {[u EXCEPT !.pc = "extract"]}
    /\ UNCHANGED <<variant, sessions, activeSessionId, isLibraryOpen, step, pdfText,
                   isScannedMode, chapters, selectedChapter, currentAnalysis,
                   currentAnalysisType, loading, error, analyses, nUploads, nAnalyses,
                   now, shownBook>>
    /\ UNCHANGED <<locVars, svcVars, audVars, ttsVars, lastCall>>

\* extractTextFromPDF resolves with x: setPdfText, the scanned mode is decided
\* and the identification request goes out. The single-session App sets the
\* mode only when it is true and shapes the request by the extractor's flag;
\* the library App sets the mode it decided and shapes the request by it.
Extracts(u, x, base64) ==
    /\ pdfText' = x.text
    /\ isScannedMode' =
          IF variant = "single"
          THEN (IF x.isScanned \/ Len(x.text) < 500 THEN TRUE ELSE isScannedMode)
          ELSE finalIsScanned(x)
    /\ uploads' = (uploads \ {u}) \cup
          {[u EXCEPT !.pc = "identify", !.mode = isScannedMode',
                     !.request =
                        IF variant = "single"
                        THEN identifyChapters(IF x.isScanned THEN <<>> ELSE x.text,
                                              IF x.isScanned THEN base64 ELSE "")
                        ELSE identifyChapters(IF finalIsScanned(x) THEN <<>> ELSE x.text,
                                              IF finalIsScanned(x) THEN base64 ELSE "")]}
    /\ UNCHANGED <<variant, sessions, activeSessionId, isLibraryOpen, step, pdfBase64,
                   chapters, selectedChapter, currentAnalysis, currentAnalysisType,
                   loading, error, analyses, nUploads, nAnalyses, now, shownBook>>
    /\ UNCHANGED <<locVars, svcVars, audVars, ttsVars, lastCall>>

ExtractResolves(u) ==
    /\ u \in uploads /\ u.pc = "extract"
    /\ Extracts(u, Extraction(u.file), convertFileToBase64(u.file))

\* loadSession(session), on the view state.
loadSession(session) ==
    /\ activeSessionId' = session.id
    /\ pdfText' = session.pdfText
    /\ pdfBase64' = session.pdfBase64
    /\ isScannedMode' = session.isScannedMode
    /\ chapters' = session.chapters
    /\ selectedChapter' = NoChapter
    /\ currentAnalysis' = EmptyText
    /\ step' = "chapters"
    /\ error' = ""
    /\ loading' = FALSE
    /\ isLibraryOpen' = FALSE
    /\ shownBook' = session.fileName

\* The BookSession handleFileSelect creates at time t for file f with
\* extraction x.
NewSession(t, f, x) ==
    [id |-> t, fileName |-> f, uploadTimestamp |-> t,
     chapters |-> IdentifiedChapters(f), pdfText |-> x.text,
     pdfBase64 |-> convertFileToBase64(f), isScannedMode |-> finalIsScanned(x)]

\* The library App stores newSession on top of the collection and loads it.
StoreSession(newSession) ==
    /\ sessions' = <<newSession>> \o sessions
    /\ loadSession(newSession)

\* identifyChapters resolves with a non-empty chapter list. The single-session
\* App shows the chapters; the library App creates and stores a session whose
\* id is the reading t of Date.now().
IdentifyResolves(u) ==
    /\ u \in uploads /\ u.pc = "identify"
    /\ uploads' = uploads \ {u}
    /\ IF variant = "single"
       THEN /\ chapters' = IdentifiedChapters(u.file)
            /\ step' = "chapters"
            /\ loading' = FALSE
            /\ shownBook' = u.file
            /\ UNCHANGED <<sessions, activeSessionId, isLibraryOpen, pdfText, pdfBase64,
                           isScannedMode, selectedChapter, currentAnalysis, error, now>>
       ELSE \E t \in {now, now + 1} :
               /\ t >= 1
               /\ now' = t
               /\ StoreSession(NewSession(t, u.file, Extraction(u.file)))
    /\ UNCHANGED <<variant, currentAnalysisType, analyses, nUploads, nAnalyses>>
    /\ UNCHANGED <<locVars, svcVars, audVars, ttsVars, lastCall>>

\* The message handleFileSelect shows when the call it awaits at u.pc fails, or
\* when the chapter list comes back empty.
UploadErrors(u) ==
    CASE u.pc = "convert" -> {"Failed to process the book."}
      [] u.pc = "extract" -> {"PDF library not loaded. Please refresh the page."}
      [] u.pc = "identify" -> {"No data returned from AI",
                               "Could not identify chapters. Try a different book."}

\* The catch block of handleFileSelect (and, in the single-session App, its
\* finally block).
UploadFails(u) ==
    /\ u \in uploads
    /\ \E msg \in UploadErrors(u) : error' = msg
    /\ loading' = FALSE
    /\ uploads' = uploads \ {u}
    /\ UNCHANGED <<variant, sessions, activeSessionId, isLibraryOpen, step, pdfText,
                   pdfBase64, isScannedMode, chapters, selectedChapter, currentAnalysis,
                   currentAnalysisType, analyses, nUploads, nAnalyses, now, shownBook>>
    /\ UNCHANGED <<locVars, svcVars, audVars, ttsVars, lastCall>>

\* A session of the dropdown is clicked (the dropdown calls loadSession; so
\* does handleSwitchSession for the id of a stored session).
SwitchSession(i) ==
    /\ variant = "library" /\ isLibraryOpen
    /\ i \in 1..Len(sessions)
    /\ loadSession(sessions[i])
    /\ UNCHANGED <<variant, sessions, currentAnalysisType, uploads, analyses, nUploads,
                   nAnalyses, now>>
    /\ UNCHANGED <<locVars, svcVars, audVars, ttsVars, lastCall>>

\* handleUploadNew, on the view state.
handleUploadNew ==
    /\ step' = "upload"
    /\ error' = ""
    /\ activeSessionId' = 0
    /\ selectedChapter' = NoChapter

\* The "My Library" button (shown while the library holds a session) toggles
\* the dropdown; a click beside the open dropdown closes it.
ToggleLibrary ==
    /\ variant = "library" /\ Len(sessions) > 0
    /\ isLibraryOpen' = ~isLibraryOpen
    /\ UNCHANGED <<variant, sessions, activeSessionId, step, pdfText, pdfBase64,
                   isScannedMode, chapters, selectedChapter, currentAnalysis,
                   currentAnalysisType, loading, error, asyncVars>>
    /\ UNCHANGED <<locVars, svcVars, audVars, ttsVars>>

\* removeSession(e, sessionId) for the i-th session of the dropdown.
RemoveSession(i) ==
    /\ variant = "library" /\ isLibraryOpen
    /\ i \in 1..Len(sessions)
    /\ LET sessionId == sessions[i].id
           newSessions == SelectSeq(sessions, LAMBDA s : s.id # sessionId)
       IN  /\ sessions' = newSessions
           /\ IF sessionId = activeSessionId
              THEN IF Len(newSessions) > 0
                   THEN loadSession(newSessions[1])
                   ELSE /\ handleUploadNew
                        /\ UNCHANGED <<isLibraryOpen, pdfText, pdfBase64, isScannedMode,
                                       chapters, currentAnalysis, loading, shownBook>>
              ELSE UNCHANGED <<activeSessionId, isLibraryOpen, step, pdfText, pdfBase64,
                               isScannedMode, chapters, selectedChapter, currentAnalysis,
                               loading, error, shownBook>>
    /\ UNCHANGED <<variant, currentAnalysisType, uploads, analyses, nUploads, nAnalyses,
                   now>>
    /\ UNCHANGED <<locVars, svcVars, audVars, ttsVars, lastCall>>

\* "Add New Book" of the dropdown: handleUploadNew, then the dropdown closes.
AddNewBook ==
    /\ variant = "library" /\ isLibraryOpen
    /\ handleUploadNew
    /\ isLibraryOpen' = FALSE
    /\ UNCHANGED <<variant, sessions, pdfText, pdfBase64, isScannedMode, chapters,
                   currentAnalysis, currentAnalysisType, loading, asyncVars>>
    /\ UNCHANGED <<locVars, svcVars, audVars, ttsVars>>

\* "Upload New" of the chapter list, library App: handleUploadNew.
HandleUploadNew ==
    /\ variant = "library" /\ step = "chapters"
    /\ handleUploadNew
    /\ UNCHANGED <<variant, sessions, isLibraryOpen, pdfText, pdfBase64, isScannedMode,
                   chapters, currentAnalysis, currentAnalysisType, loading, asyncVars>>
    /\ UNCHANGED <<locVars, svcVars, audVars, ttsVars>>

\* A click on the logo of the library App: the first session is loaded, or
\* handleUploadNew when there is none.
LogoClick ==
    /\ variant = "library"
    /\ IF Len(sessions) > 0
       THEN loadSession(sessions[1])
       ELSE /\ handleUploadNew
            /\ UNCHANGED <<isLibraryOpen, pdfText, pdfBase64, isScannedMode, chapters,
                           currentAnalysis, loading, shownBook>>
    /\ UNCHANGED <<variant, sessions, currentAnalysisType, uploads, analyses, nUploads,
                   nAnalyses, now>>
    /\ UNCHANGED <<locVars, svcVars, audVars, ttsVars, lastCall>>

\* handleReset of the single-session App: the logo (always shown) and the
\* "Upload New" buttons call it.
HandleReset ==
    /\ variant = "single"
    /\ pdfText' = <<>>
    /\ pdfBase64' = ""
    /\ chapters' = <<>>
    /\ selectedChapter' = NoChapter
    /\ currentAnalysis' = EmptyText
    /\ step' = "upload"
    /\ error' = ""
    /\ isScannedMode' = FALSE
    /\ shownBook' = ""
    /\ UNCHANGED <<variant, sessions, activeSessionId, isLibraryOpen, currentAnalysisType,
                   loading, uploads, analyses, nUploads, nAnalyses, now>>
    /\ UNCHANGED <<locVars, svcVars, audVars, ttsVars, lastCall>>

\* The index of chapter in chapters as findIndex gives it, from 1; 0 for -1.
FindIndex(chapter) ==
    LET hits == {i \in 1..Len(chapters) :
                    chapters[i].number = chapter.number /\ chapters[i].title = chapter.title}
    IN  IF hits = {} THEN 0 ELSE SetMin(hits)

\* The title of the chapter after chapter in the list; <<>> for null.
NextChapterTitle(chapter) ==
    LET currentIndex == FindIndex(chapter)
    IN  IF currentIndex >= 1 /\ currentIndex < Len(chapters)
        THEN chapters[currentIndex + 1].title ELSE <<>>

\* What findChapterText returns to handleChapterAnalysis; kind "bypassed" in
\* scanned mode, where it is not called.
Located(chapter) ==
    IF isScannedMode THEN [NotFound EXCEPT !.kind = "bypassed"]
    ELSE findChapterText(pdfText, chapter.title, NextChapterTitle(chapter))

\* chapterContent as handleChapterAnalysis passes it to analyzeChapterContent
\* when findChapterText returned found: null in scanned mode, and when the
\* located text is missing, empty or shorter than 200 characters.
ChapterContent(found) ==
    IF found.kind # "text" \/ found.text = <<>> \/ Len(found.text) < 200
    THEN null ELSE found.text

\* handleChapterAnalysis from the call of analyzeChapterContent on, up to its
\* await. When analyzeChapterContent throws for want of content no request
\* goes out and the catch and finally blocks run before any other handler.
AwaitAnalysis(chapter, type, found, request) ==
    /\ lastCall' = [n |-> nAnalyses + 1, isScannedMode |-> isScannedMode,
                    book |-> shownBook, located |-> found, request |-> request]
    /\ selectedChapter' = chapter
    /\ currentAnalysisType' = type
    /\ currentAnalysis' = EmptyText
    /\ nAnalyses' = nAnalyses + 1
    /\ IF request.kind = "throw"
       THEN /\ error' = "Failed to generate analysis."
            /\ step' = "chapters"
            /\ loading' = FALSE
            /\ UNCHANGED analyses
       ELSE /\ step' = "analysis"
            /\ loading' = TRUE
            /\ analyses' = analyses \cup
                  {[id |-> nAnalyses + 1, request |-> request, book |-> shownBook]}
            /\ UNCHANGED error
    /\ UNCHANGED <<variant, sessions, activeSessionId, isLibraryOpen, pdfText, pdfBase64,
                   isScannedMode, chapters, uploads, nUploads, now, shownBook>>
    /\ UNCHANGED <<locVars, svcVars, audVars, ttsVars>>

\* handleChapterAnalysis from the result found of findChapterText on.
AnalyzeLocated(chapter, type, found) ==
    AwaitAnalysis(chapter, type, found,
                  analyzeChapterContent(chapter.title, ChapterContent(found), type,
                                        pdfBase64))

\* handleChapterAnalysis(chapter, type) up to its await.
handleChapterAnalysis(chapter, type) ==
    /\ nUploads + nAnalyses < MaxRequests
    /\ AnalyzeLocated(chapter, type, Located(chapter))

\* An analysis button of the i-th chapter card is clicked.
SelectChapter(i, type) ==
    /\ step = "chapters"
    /\ i \in 1..Len(chapters)
    /\ handleChapterAnalysis(chapters[i], type)

\* "Regenerate" of the analysis view, shown once loading is over.
Regenerate ==
    /\ step = "analysis" /\ selectedChapter # NoChapter /\ ~loading
    /\ handleChapterAnalysis(selectedChapter, currentAnalysisType)

\* "Back to Chapters" of the analysis view, shown once loading is over.
OnBack ==
    /\ step = "analysis" /\ selectedChapter # NoChapter /\ ~loading
    /\ step' = "chapters"
    /\ UNCHANGED <<variant, sessions, activeSessionId, isLibraryOpen, pdfText, pdfBase64,
                   isScannedMode, chapters, selectedChapter, currentAnalysis,
                   currentAnalysisType, loading, error, asyncVars>>
    /\ UNCHANGED <<locVars, svcVars, audVars, ttsVars>>

\* The error banner is dismissed.
DismissError ==
    /\ error # ""
    /\ error' = ""
    /\ UNCHANGED <<variant, sessions, activeSessionId, isLibraryOpen, step, pdfText,
                   pdfBase64, isScannedMode, chapters, selectedChapter, currentAnalysis,
                   currentAnalysisType, loading, asyncVars>>
    /\ UNCHANGED <<locVars, svcVars, audVars, ttsVars>>

\* analyzeChapterContent resolves: setCurrentAnalysis(result), then finally.
AnalysisResolves(a) ==
    /\ a \in analyses
    /\ currentAnalysis' = AnalysisOf(a.id)
    /\ loading' = FALSE
    /\ analyses' = analyses \ {a}
    /\ UNCHANGED <<variant, sessions, activeSessionId, isLibraryOpen, step, pdfText,
                   pdfBase64, isScannedMode, chapters, selectedChapter,
                   currentAnalysisType, error, uploads, nUploads, nAnalyses, now, shownBook>>
    /\ UNCHANGED <<locVars, svcVars, audVars, ttsVars, lastCall>>

\* analyzeChapterContent rejects: the catch block, then finally.
AnalysisRejects(a) ==
    /\ a \in analyses
    /\ error' = "Failed to generate analysis."
    /\ step' = "chapters"
    /\ loading' = FALSE
    /\ analyses' = analyses \ {a}
    /\ UNCHANGED <<variant, sessions, activeSessionId, isLibraryOpen, pdfText, pdfBase64,
                   isScannedMode, chapters, selectedChapter, currentAnalysis,
                   currentAnalysisType, uploads, nUploads, nAnalyses, now, shownBook>>
    /\ UNCHANGED <<locVars, svcVars, audVars, ttsVars, lastCall>>

-----------------------------------------------------------------------------
(* AnalysisView: the audio engine of its two versions. "basic" is the view *)
(* of components/ChapterList.tsx (play, pause, stop), "enhanced" the view  *)
(* of part_003 (play, pause, skip, scrubber). Times are counted in ticks;  *)
(* the view's props are its inputs: analysis is 0 for the empty text shown *)
(* while the chapter is analysed, else the number of the analysis text.    *)

\* Ticks per second of ctx.currentTime.
TicksPerSecond == 4

\* The duration of every decoded buffer, the last clock reading and the
\* source nodes a behaviour creates, and the analysis texts the view is given.
\* A source node records the buffer it plays, the offset and the time it was
\* started at, whether it has halted and where, and whether it is connected
\* to the destination.
BufferDuration == 3

MaxTime == 4

MaxNodes == 3

MaxTexts == 2

Max(a, b) == IF a > b THEN a ELSE b

Abs(a) == IF a < 0 THEN -a ELSE a

\* The handlers that stop playback.
StopCalls == {"handleStop", "analysisEffect", "unmount"}

AudStart(v) ==
    /\ version = v
    /\ mounted = (v # "idle")
    /\ analysis = 0
    /\ isPlaying = FALSE
    /\ isPaused = FALSE
    /\ isGeneratingAudio = FALSE
    /\ audioBuffer = 0
    /\ currentTime = 0
    /\ duration = 0
    /\ sourceNodeRef = 0
    /\ startTimeRef = 0
    /\ pauseOffsetRef = 0
    /\ ctxTime = 0
    /\ ctxClosed = FALSE
    /\ nodes = <<>>
    /\ speech = {}
    /\ ended = {}
    /\ op = "none"
    /\ stops = 0

\* The handler name is called.
Called(name) ==
    /\ op' = name
    /\ stops' = IF name \notin StopCalls THEN 0
                ELSE IF isPlaying THEN 1
                ELSE IF stops > 0 THEN Min(stops + 1, 2)
                ELSE 0

\* The position in its buffer that node k of ns has played to.
Position(ns, k) ==
    IF ns[k].halted THEN ns[k].playedTo
    ELSE ns[k].offset + (ctxTime - ns[k].startedAt)

\* source.stop() on node k of ns: the node is halted where it has played to.
Stopped(ns, k) ==
    [ns EXCEPT ![k].halted = TRUE, ![k].playedTo = Position(ns, k)]

\* source.disconnect() on node k of ns.
Disconnected(ns, k) == [ns EXCEPT ![k].connected = FALSE]

\* The 'ended' events queued once node k of the basic view is stopped: one for
\* a node that was still running.
EndedBy(k) == IF nodes[k].halted THEN ended ELSE ended \cup {k}

\* A source node created on buffer b, connected and started at offset o.
NewSource(b, o) ==
    [buffer |-> b, offset |-> o, startedAt |-> ctxTime,
     halted |-> o >= BufferDuration, playedTo |-> o, connected |-> TRUE]

\* stopAudioInternal without the reset of pausedAtRef.
stopAudioInternal_KeepsOffset ==
    /\ IF sourceNodeRef # 0
       THEN /\ nodes' = Disconnected(Stopped(nodes, sourceNodeRef), sourceNodeRef)
            /\ ended' = EndedBy(sourceNodeRef)
       ELSE UNCHANGED <<nodes, ended>>
    /\ sourceNodeRef' = 0
    /\ isPlaying' = FALSE
    /\ isPaused' = FALSE
    /\ UNCHANGED pauseOffsetRef

\* stopAudioInternal of the basic view.
stopAudioInternal ==
    /\ IF sourceNodeRef # 0
       THEN /\ nodes' = Disconnected(Stopped(nodes, sourceNodeRef), sourceNodeRef)
            /\ ended' = EndedBy(sourceNodeRef)
       ELSE UNCHANGED <<nodes, ended>>
    /\ sourceNodeRef' = 0
    /\ isPlaying' = FALSE
    /\ isPaused' = FALSE
    /\ pauseOffsetRef' = 0

\* stopAudio of the enhanced view.
stopAudio ==
    /\ IF sourceNodeRef # 0
       THEN nodes' = Disconnected(Stopped(nodes, sourceNodeRef), sourceNodeRef)
       ELSE UNCHANGED nodes
    /\ sourceNodeRef' = 0
    /\ pauseOffsetRef' = 0
    /\ currentTime' = 0
    /\ isPlaying' = FALSE
    /\ UNCHANGED <<isPaused, ended>>

\* handlePlay of the basic view from "Setup source" on, with buffer b: the
\* source starts at the paused position.
StartBasic(b) ==
    /\ nodes' = Append(nodes, NewSource(b, pauseOffsetRef))
    /\ ended' = IF pauseOffsetRef >= BufferDuration
                THEN ended \cup {Len(nodes) + 1} ELSE ended
    /\ startTimeRef' = ctxTime - pauseOffsetRef
    /\ sourceNodeRef' = Len(nodes) + 1
    /\ isPlaying' = TRUE
    /\ isPaused' = FALSE
    /\ UNCHANGED pauseOffsetRef

\* playAudio(offset) of the enhanced view after prepareAudio returned buffer
\* b, the nodes being ns: the node held is disconnected, the new one starts
\* at the clamped offset.
StartEnhanced(ns, b, offset) ==
    /\ nodes' = Append(IF sourceNodeRef # 0 THEN Disconnected(ns, sourceNodeRef) ELSE ns,
                       NewSource(b, Min(Max(0, offset), BufferDuration)))
    /\ startTimeRef' = ctxTime
    /\ pauseOffsetRef' = Min(Max(0, offset), BufferDuration)
    /\ sourceNodeRef' = Len(nodes) + 1
    /\ isPlaying' = TRUE
    /\ UNCHANGED <<isPaused, ended>>

\* The controls of the view are shown: it is mounted and not loading.
Shown == mounted /\ analysis # 0

\* Source nodes are left for this call and for the speech requests pending.
NodeLeft == Len(nodes) + Cardinality(speech) < MaxNodes

\* "Read Aloud" or "Resume" of the basic view: handlePlay. With a cached
\* buffer it runs to its end; without, it awaits generateSpeech(analysis).
HandlePlay ==
    /\ version = "basic" /\ Shown
    /\ ~isGeneratingAudio /\ ~isPlaying
    /\ NodeLeft
    /\ Called("handlePlay")
    /\ IF audioBuffer # 0
       THEN /\ StartBasic(audioBuffer)
            /\ UNCHANGED <<isGeneratingAudio, speech>>
       ELSE /\ isGeneratingAudio' = TRUE
            /\ speech' = speech \cup {[text |-> analysis, offset |-> 0]}
            /\ UNCHANGED <<nodes, startTimeRef, sourceNodeRef, isPlaying, isPaused,
                           pauseOffsetRef, ended>>
    /\ UNCHANGED <<version, mounted, analysis, audioBuffer, currentTime, duration,
                   ctxTime, ctxClosed>>
    /\ UNCHANGED <<locVars, svcVars, appVars, ttsVars>>

\* "Pause" of the basic view: handlePause.
HandlePause ==
    /\ version = "basic" /\ Shown
    /\ ~isGeneratingAudio /\ isPlaying
    /\ Called("handlePause")
    /\ IF sourceNodeRef # 0
       THEN /\ nodes' = Disconnected(Stopped(nodes, sourceNodeRef), sourceNodeRef)
            /\ ended' = EndedBy(sourceNodeRef)
            /\ pauseOffsetRef' = ctxTime - startTimeRef
            /\ sourceNodeRef' = 0
            /\ isPlaying' = FALSE
            /\ isPaused' = TRUE
       ELSE UNCHANGED <<nodes, ended, pauseOffsetRef, sourceNodeRef, isPlaying, isPaused>>
    /\ UNCHANGED <<version, mounted, analysis, isGeneratingAudio, audioBuffer, currentTime,
                   duration, startTimeRef, ctxTime, ctxClosed, speech>>
    /\ UNCHANGED <<locVars, svcVars, appVars, ttsVars>>

\* "Stop" of the basic view: handleStop.
HandleStop ==
    /\ version = "basic" /\ Shown
    /\ ~isGeneratingAudio /\ (isPlaying \/ isPaused)
    /\ Called("handleStop")
    /\ stopAudioInternal
    /\ UNCHANGED <<version, mounted, analysis, isGeneratingAudio, audioBuffer, currentTime,
                   duration, startTimeRef, ctxTime, ctxClosed, speech>>
    /\ UNCHANGED <<locVars, svcVars, appVars, ttsVars>>

\* The 'ended' event of node k reaches the onended handler of the basic view.
OnEnded(k) ==
    /\ k \in ended
    /\ ended' = ended \ {k}
    /\ IF 2 * Abs((ctxTime - startTimeRef) - BufferDuration) < TicksPerSecond
       THEN /\ isPlaying' = FALSE
            /\ isPaused' = FALSE
            /\ pauseOffsetRef' = 0
       ELSE UNCHANGED <<isPlaying, isPaused, pauseOffsetRef>>
    /\ UNCHANGED <<version, mounted, analysis, isGeneratingAudio, audioBuffer, currentTime,
                   duration, sourceNodeRef, startTimeRef, ctxTime, ctxClosed, nodes,
                   speech, op, stops>>
    /\ UNCHANGED <<locVars, svcVars, appVars, ttsVars>>

\* The play button of the enhanced view: playAudio(). With a buffer cached it
\* runs to its end; without, prepareAudio awaits generateSpeech(analysis).
PlayAudio ==
    /\ version = "enhanced" /\ Shown
    /\ ~isGeneratingAudio /\ ~isPlaying
    /\ NodeLeft
    /\ Called("playAudio")
    /\ IF audioBuffer # 0
       THEN /\ StartEnhanced(nodes, audioBuffer, pauseOffsetRef)
            /\ UNCHANGED <<isGeneratingAudio, speech>>
       ELSE /\ isGeneratingAudio' = TRUE
            /\ speech' = speech \cup {[text |-> analysis, offset |-> pauseOffsetRef]}
            /\ UNCHANGED <<nodes, startTimeRef, sourceNodeRef, isPlaying, isPaused,
                           pauseOffsetRef, ended>>
    /\ UNCHANGED <<version, mounted, analysis, audioBuffer, currentTime, duration,
                   ctxTime, ctxClosed>>
    /\ UNCHANGED <<locVars, svcVars, appVars, ttsVars>>

\* The pause button of the enhanced view: pauseAudio.
PauseAudio ==
    /\ version = "enhanced" /\ Shown
    /\ ~isGeneratingAudio /\ isPlaying
    /\ Called("pauseAudio")
    /\ IF sourceNodeRef # 0
       THEN /\ nodes' = Stopped(nodes, sourceNodeRef)
            /\ pauseOffsetRef' = pauseOffsetRef + (ctxTime - startTimeRef)
            /\ isPlaying' = FALSE
       ELSE UNCHANGED <<nodes, pauseOffsetRef, isPlaying>>
    /\ UNCHANGED <<version, mounted, analysis, isPaused, isGeneratingAudio, audioBuffer,
                   currentTime, duration, sourceNodeRef, startTimeRef, ctxTime, ctxClosed,
                   speech, ended>>
    /\ UNCHANGED <<locVars, svcVars, appVars, ttsVars>>

\* seekAudio(time) without the playAudio(time) that follows while playing.
seekAudio_WithoutRestart(time) ==
    /\ currentTime' = time
    /\ nodes' = IF sourceNodeRef # 0 THEN Stopped(nodes, sourceNodeRef) ELSE nodes
    /\ pauseOffsetRef' = time
    /\ UNCHANGED <<startTimeRef, sourceNodeRef, isPlaying, isPaused, ended>>
    /\ UNCHANGED <<version, mounted, analysis, isGeneratingAudio, audioBuffer, duration,
                   ctxTime, ctxClosed, speech>>

\* seekAudio(time) of the enhanced view; the buffer is cached, so the
\* playAudio(time) it calls while playing runs to its end.
seekAudio(time) ==
    /\ currentTime' = time
    /\ IF isPlaying
       THEN /\ NodeLeft
            /\ StartEnhanced(IF sourceNodeRef # 0 THEN Stopped(nodes, sourceNodeRef)
                             ELSE nodes,
                             audioBuffer, time)
       ELSE /\ nodes' = IF sourceNodeRef # 0 THEN Stopped(nodes, sourceNodeRef) ELSE nodes
            /\ pauseOffsetRef' = time
            /\ UNCHANGED <<startTimeRef, sourceNodeRef, isPlaying, isPaused, ended>>
    /\ UNCHANGED <<version, mounted, analysis, isGeneratingAudio, audioBuffer, duration,
                   ctxTime, ctxClosed, speech>>

\* The scrubber, enabled while a buffer is cached: handleSeekSlider.
HandleSeekSlider(time) ==
    /\ version = "enhanced" /\ Shown
    /\ audioBuffer # 0
    /\ time \in 0..duration
    /\ Called("seekAudio")
    /\ seekAudio(time)
    /\ UNCHANGED <<locVars, svcVars, appVars, ttsVars>>

\* The skip buttons, enabled while a buffer is cached: skip(seconds).
Skip(seconds) ==
    /\ version = "enhanced" /\ Shown
    /\ ~isGeneratingAudio /\ audioBuffer # 0
    /\ Called("seekAudio")
    /\ seekAudio(Min(Max(0, currentTime + seconds * TicksPerSecond), duration))
    /\ UNCHANGED <<locVars, svcVars, appVars, ttsVars>>

\* generateSpeech resolves for the pending call p: the buffer is decoded and
\* cached and the call goes on to start its source.
SpeechResolves(p) ==
    /\ p \in speech
    /\ speech' = speech \ {p}
    /\ audioBuffer' = p.text
    /\ isGeneratingAudio' = FALSE
    /\ IF version = "basic"
       THEN /\ StartBasic(p.text)
            /\ UNCHANGED <<currentTime, duration>>
       ELSE /\ StartEnhanced(nodes, p.text, p.offset)
            /\ duration' = BufferDuration
            /\ UNCHANGED currentTime
    /\ stops' = 0
    /\ UNCHANGED <<version, mounted, analysis, ctxTime, ctxClosed, op>>
    /\ UNCHANGED <<locVars, svcVars, appVars, ttsVars>>

\* generateSpeech rejects for the pending call p: the user is alerted.
SpeechRejects(p) ==
    /\ p \in speech
    /\ speech' = speech \ {p}
    /\ isGeneratingAudio' = FALSE
    /\ isPlaying' = IF version = "basic" THEN FALSE ELSE isPlaying
    /\ UNCHANGED <<version, mounted, analysis, isPaused, audioBuffer, currentTime, duration,
                   sourceNodeRef, startTimeRef, pauseOffsetRef, ctxTime, ctxClosed, nodes,
                   ended, op, stops>>
    /\ UNCHANGED <<locVars, svcVars, appVars, ttsVars>>

\* The effect on [analysis]: the view is given the analysis a; playback is
\* stopped and the cached buffer dropped. The App empties the analysis when
\* a request starts and sets the text when it succeeds.
AnalysisEffect(a) ==
    /\ mounted
    /\ a # analysis
    /\ a = 0 \/ analysis = 0
    /\ analysis' = a
    /\ Called("analysisEffect")
    /\ audioBuffer' = 0
    /\ IF version = "basic"
       THEN /\ stopAudioInternal
            /\ UNCHANGED <<currentTime, duration>>
       ELSE /\ stopAudio
            /\ duration' = 0
    /\ UNCHANGED <<version, mounted, isGeneratingAudio, startTimeRef, ctxTime, ctxClosed,
                   speech>>
    /\ UNCHANGED <<locVars, svcVars, appVars, ttsVars>>

\* The view is left: the cleanup effect stops playback and closes the context.
Unmount ==
    /\ mounted
    /\ mounted' = FALSE
    /\ ctxClosed' = TRUE
    /\ Called("unmount")
    /\ IF version = "basic"
       THEN /\ stopAudioInternal
            /\ UNCHANGED currentTime
       ELSE stopAudio
    /\ UNCHANGED <<version, analysis, isGeneratingAudio, audioBuffer, duration,
                   startTimeRef, ctxTime, speech>>
    /\ UNCHANGED <<locVars, svcVars, appVars, ttsVars>>

\* Node k of ns plays to the end of its buffer by time t.
RunsOut(ns, k, t) ==
    ~ns[k].halted /\ ns[k].offset + (t - ns[k].startedAt) >= BufferDuration

\* updateProgress of the enhanced view, on the animation frame at time t.
updateProgress(t) ==
    IF pauseOffsetRef + (t - startTimeRef) >= duration
    THEN /\ currentTime' = duration
         /\ isPlaying' = FALSE
         /\ pauseOffsetRef' = 0
    ELSE /\ currentTime' = pauseOffsetRef + (t - startTimeRef)
         /\ UNCHANGED <<isPlaying, pauseOffsetRef>>

\* ctx.currentTime advances by one tick, once the queued events are handled.
\* A node that reaches the end of its buffer halts, with an 'ended' event in
\* the basic view; while the enhanced view is playing, the animation frame
\* runs updateProgress.
Tick ==
    /\ ctxTime < MaxTime /\ ~ctxClosed
    /\ ended = {}
    /\ ctxTime' = ctxTime + 1
    /\ nodes' = [k \in 1..Len(nodes) |->
                    IF RunsOut(nodes, k, ctxTime + 1)
                    THEN [nodes[k] EXCEPT !.halted = TRUE, !.playedTo = BufferDuration]
                    ELSE nodes[k]]
    /\ ended' = IF version = "basic"
                THEN {k \in 1..Len(nodes) : RunsOut(nodes, k, ctxTime + 1)}
                ELSE ended
    /\ IF version = "enhanced" /\ isPlaying /\ mounted
       THEN updateProgress(ctxTime + 1)
       ELSE UNCHANGED <<currentTime, isPlaying, pauseOffsetRef>>
    /\ UNCHANGED <<version, mounted, analysis, isPaused, isGeneratingAudio, audioBuffer,
                   duration, sourceNodeRef, startTimeRef, ctxClosed, speech, op, stops>>
    /\ UNCHANGED <<locVars, svcVars, appVars, ttsVars>>

-----------------------------------------------------------------------------
(* geminiService.generateSpeech, chunked version: the request loop over the *)
(* chunks and the merge of the audio segments. Bytes are numbers 0..255.    *)

Base64Alphabet ==
    UpperCase \o LowerCase \o
    <<"0", "1", "2", "3", "4", "5", "6", "7", "8", "9", "+", "/">>

\* The 6-bit value of base64 character c; padding counts as 0.
Base64Value(c) ==
    IF c = "=" THEN 0 ELSE (CHOOSE i \in 1..64 : Base64Alphabet[i] = c) - 1

\* btoa of the binary string whose char codes are bytes.
RECURSIVE btoa(_)
btoa(bytes) ==
    IF Len(bytes) = 0 THEN <<>>
    ELSE IF Len(bytes) = 1
    THEN <<Base64Alphabet[(bytes[1] \div 4) + 1],
           Base64Alphabet[((bytes[1] % 4) * 16) + 1], "=", "=">>
    ELSE IF Len(bytes) = 2
    THEN <<Base64Alphabet[(bytes[1] \div 4) + 1],
           Base64Alphabet[((bytes[1] % 4) * 16 + bytes[2] \div 16) + 1],
           Base64Alphabet[((bytes[2] % 16) * 4) + 1], "=">>
    ELSE <<Base64Alphabet[(bytes[1] \div 4) + 1],
           Base64Alphabet[((bytes[1] % 4) * 16 + bytes[2] \div 16) + 1],
           Base64Alphabet[((bytes[2] % 16) * 4 + bytes[3] \div 64) + 1],
           Base64Alphabet[(bytes[3] % 64) + 1]>>
         \o btoa(SubSeq(bytes, 4, Len(bytes)))

\* atob of a padded base64 string, as char codes.
RECURSIVE atob(_)
atob(base64) ==
    IF Len(base64) < 4 THEN <<>>
    ELSE SubSeq(<<Base64Value(base64[1]) * 4 + Base64Value(base64[2]) \div 16,
                  (Base64Value(base64[2]) % 16) * 16 + Base64Value(base64[3]) \div 4,
                  (Base64Value(base64[3]) % 4) * 64 + Base64Value(base64[4])>>,
                1,
                IF base64[3] = "=" THEN 1 ELSE IF base64[4] = "=" THEN 2 ELSE 3)
         \o atob(SubSeq(base64, 5, Len(base64)))

base64ToUint8Array(base64) == atob(base64)

uint8ArrayToBase64(bytes) == btoa(bytes)

\* combinedAudio: the segments copied one after the other, first at offset 0.
RECURSIVE combinedAudio_Reversed(_)
combinedAudio_Reversed(segments) ==
    IF segments = <<>> THEN <<>>
    ELSE combinedAudio_Reversed(Tail(segments)) \o Head(segments)

RECURSIVE combinedAudio(_)
combinedAudio(segments) ==
    IF segments = <<>> THEN <<>>
    ELSE Head(segments) \o combinedAudio(Tail(segments))

\* A response without audio data.
NoAudio == <<"no audio">>

\* generateSpeech has not returned.
NoSpeech == [kind |-> "none"]

\* The ceiling of one speech request, in characters.
MAX_CHUNK_LENGTH == 3000

\* The characters of [.!?].
Terminators == {".", "!", "?"}

\* The 1-based positions of s that hold a character of [.!?].
TermPositions(s) == {j \in 1..Len(s) : s[j] \in Terminators}

\* [^.!?]+[.!?]+ matches at the 0-based position i of s: a character other
\* than a terminator stands there and a terminator follows later (T is
\* TermPositions(s)).
SentenceAt(s, T, i) ==
    /\ i < Len(s)
    /\ (i + 1) \notin T
    /\ \E t \in T : t > i + 1

\* The 0-based end of that match: the greedy run of terminators that follows
\* the first terminator after i.
SentenceEnd(s, T, i) ==
    SetMin({e \in SetMin({t \in T : t > i + 1})..Len(s) : (e + 1) \notin T})

\* \s*$ matches at i: only white space stands from i to the end of s (w is
\* the 0-based end of s without its trailing white space).
BlankEndAt(w, i) == i >= w

\* The 0-based position of the leftmost match at or after lastIndex; the
\* end of the string always matches \s*$.
MatchIndex(s, T, w, lastIndex) ==
    SetMin({i \in lastIndex..Len(s) : SentenceAt(s, T, i) \/ BlankEndAt(w, i)})

\* The matches of /[^.!?]+[.!?]+|\s*$/g from lastIndex on, in order; after an
\* empty match lastIndex advances by one.
RECURSIVE MatchFrom(_, _, _, _)
MatchesAt(s, T, w, i) ==
    IF SentenceAt(s, T, i)
    THEN <<Slice(s, i, SentenceEnd(s, T, i))>> \o MatchFrom(s, T, w, SentenceEnd(s, T, i))
    ELSE IF i = Len(s) THEN << <<>> >>
    ELSE <<Slice(s, i, Len(s))>> \o MatchFrom(s, T, w, Len(s))

MatchFrom(s, T, w, lastIndex) ==
    IF lastIndex > Len(s) THEN <<>>
    ELSE MatchesAt(s, T, w, MatchIndex(s, T, w, lastIndex))

\* safeText.match(/[^.!?]+[.!?]+|\s*$/g) || [safeText]
sentences(text) ==
    IF MatchFrom(text, TermPositions(text), TrimmedEnd(text, Len(text)), 0) = <<>>
    THEN <<text>>
    ELSE MatchFrom(text, TermPositions(text), TrimmedEnd(text, Len(text)), 0)

\* chunks.push(currentChunk) when currentChunk.trim() is not empty.
PushChunk(list, currentChunk) ==
    IF Trim(currentChunk) # <<>> THEN Append(list, currentChunk) ELSE list

\* The loop over the sentences from the k-th on, then the last push.
RECURSIVE Accumulate(_, _, _, _)
Accumulate(ss, k, currentChunk, list) ==
    IF k > Len(ss) THEN PushChunk(list, currentChunk)
    ELSE IF Len(currentChunk) + Len(ss[k]) > MAX_CHUNK_LENGTH
    THEN Accumulate(ss, k + 1, ss[k], PushChunk(list, currentChunk))
    ELSE Accumulate(ss, k + 1, currentChunk \o ss[k], list)

\* The chunks of a cleaned text, one speech request each.
Chunked(text) ==
    IF Len(text) <= MAX_CHUNK_LENGTH THEN <<text>>
    ELSE Accumulate(sentences(text), 1, <<>>, <<>>)

\* generateSpeech is entered with a cleaned text and has built its chunks
\* (no call at all when c is empty).
SpeechStart(text, c) ==
    /\ safeText = text
    /\ chunks = c
    /\ chunkIdx = 1
    /\ inFlight = {}
    /\ issued = <<>>
    /\ answers = <<>>
    /\ audioSegments = <<>>
    /\ speechResult = NoSpeech
    /\ tpc = IF c = <<>> THEN "idle" ELSE "loop"

\* The loop reaches a blank chunk: continue.
SkipChunk ==
    /\ tpc = "loop"
    /\ chunkIdx <= Len(chunks)
    /\ Trim(chunks[chunkIdx]) = <<>>
    /\ chunkIdx' = chunkIdx + 1
    /\ UNCHANGED <<safeText, chunks, inFlight, issued, answers, audioSegments, speechResult, tpc>>
    /\ UNCHANGED <<locVars, svcVars, appVars, audVars>>

\* The loop reaches a chunk with text: its request is sent and awaited.
RequestChunk ==
    /\ tpc = "loop"
    /\ chunkIdx <= Len(chunks)
    /\ Trim(chunks[chunkIdx]) # <<>>
    /\ inFlight' = inFlight \cup {chunkIdx}
    /\ issued' = Append(issued, chunkIdx)
    /\ tpc' = "awaiting"
    /\ UNCHANGED <<safeText, chunks, chunkIdx, answers, audioSegments, speechResult>>
    /\ UNCHANGED <<locVars, svcVars, appVars, audVars>>

\* The awaited response arrives, with base64 audio or without: its segment
\* is pushed if it has audio, and the loop goes on.
ChunkResponds(base64Audio) ==
    /\ tpc = "awaiting"
    /\ chunkIdx \in inFlight
    /\ inFlight' = inFlight \ {chunkIdx}
    /\ answers' = Append(answers, base64Audio)
    /\ audioSegments' = IF base64Audio # NoAudio
                        THEN Append(audioSegments, base64ToUint8Array(base64Audio))
                        ELSE audioSegments
    /\ chunkIdx' = chunkIdx + 1
    /\ tpc' = "loop"
    /\ UNCHANGED <<safeText, chunks, issued, speechResult>>
    /\ UNCHANGED <<locVars, svcVars, appVars, audVars>>

\* The awaited request fails: the error is logged and rethrown.
ChunkFails ==
    /\ tpc = "awaiting"
    /\ chunkIdx \in inFlight
    /\ inFlight' = inFlight \ {chunkIdx}
    /\ speechResult' = [kind |-> "throw", message |-> "request failed"]
    /\ tpc' = "done"
    /\ UNCHANGED <<safeText, chunks, chunkIdx, issued, answers, audioSegments>>
    /\ UNCHANGED <<locVars, svcVars, appVars, audVars>>

\* After the loop: no segment is an error, else the segments are merged and
\* returned as base64.
ReturnSpeech ==
    /\ tpc = "loop"
    /\ chunkIdx > Len(chunks)
    /\ speechResult' =
          IF Len(audioSegments) = 0
          THEN [kind |-> "throw", message |-> "No audio generated"]
          ELSE [kind |-> "return",
                base64 |-> uint8ArrayToBase64(combinedAudio(audioSegments))]
    /\ tpc' = "done"
    /\ UNCHANGED <<safeText, chunks, chunkIdx, inFlight, issued, answers, audioSegments>>

    /\ UNCHANGED <<locVars, svcVars, appVars, audVars>>

-----------------------------------------------------------------------------
(* The specifications: the chapter locator, analyzeChapterContent and the   *)
(* request loop of generateSpeech applied to bounded inputs, the App of     *)
(* either variant, and the AnalysisView of either version. Each holds the   *)
(* variables of the others at rest.                                         *)

LocIdle ==
    /\ fullText = <<>>
    /\ chapterTitle = <<>>
    /\ nextChapterTitle = <<>>
    /\ located = NotFound
    /\ lpc = "idle"
    /\ built = 0
    /\ docRuns = <<>>
    /\ capped = NotCapped

SvcIdle ==
    /\ aChapterText = null
    /\ aPdfBase64 = ""
    /\ aType = "standard"
    /\ aOutcome = NoOutcome
    /\ apc = "idle"

AppIdle == AppStart("idle")

AudIdle == AudStart("idle")

TtsIdle == SpeechStart(<<>>, <<>>)

-----------------------------------------------------------------------------
(* The locator applied to bounded documents and titles.                    *)

\* s repeated n times.
RECURSIVE Repeat(_, _)
Repeat(s, n) == IF n <= 0 THEN <<>> ELSE s \o Repeat(s, n - 1)

MaxPieces == 4

PadLen == 20

Pad == Repeat(<<"x">>, PadLen)

EightWords == <<"a", " ", "a", " ", "a", " ", "a", " ", "a", " ", "a", " ", "a", " ", "a">>

Pieces == { <<"a">>, Pad, EightWords, <<"P", "a", "r", "t", " ", "\n", "1">> }

Titles ==
    { <<>>, <<" ">>, <<"A">>, <<"a", " ", " ", "a">>, <<" ", "a">>,
      EightWords \o <<" ", "b">>,
      <<"p", "a", "r", "t", " ", "1", ":", " ", "b">> }

NextTitles == { <<>>, <<"a">>, <<"X">> }

LocInit ==
    /\ fullText = <<>>
    /\ chapterTitle = <<>>
    /\ nextChapterTitle = <<>>
    /\ located = NotFound
    /\ lpc = "build"
    /\ built = 0
    /\ docRuns = <<>>
    /\ capped = NotCapped
    /\ SvcIdle
    /\ AppIdle
    /\ AudIdle
    /\ TtsIdle

AppendPiece(p) ==
    /\ lpc = "build"
    /\ built < MaxPieces
    /\ fullText' = fullText \o p
    /\ built' = built + 1
    /\ UNCHANGED <<chapterTitle, nextChapterTitle, located, lpc, docRuns, capped>>
    /\ UNCHANGED <<svcVars, appVars, audVars, ttsVars>>

ChooseTitles(t, n) ==
    /\ lpc = "build"
    /\ chapterTitle' = t
    /\ nextChapterTitle' = n
    /\ lpc' = "ready"
    /\ UNCHANGED <<fullText, located, built, docRuns, capped>>
    /\ UNCHANGED <<svcVars, appVars, audVars, ttsVars>>

Locate ==
    /\ lpc = "ready"
    /\ located' = findChapterText(fullText, chapterTitle, nextChapterTitle)
    /\ lpc' = "done"
    /\ UNCHANGED <<fullText, chapterTitle, nextChapterTitle, built, docRuns, capped>>
    /\ UNCHANGED <<svcVars, appVars, audVars, ttsVars>>

LocNext ==
    \/ \E p \in Pieces : AppendPiece(p)
    \/ \E t \in Titles, n \in NextTitles : ChooseTitles(t, n)
    \/ Locate

SpecLocate == LocInit /\ [][LocNext]_vars

\* The locator applied to documents whose chapter is about as long as the
\* cap, and to short ones: a title, a body of n characters, and an end that
\* is empty, white space, or the title of the next chapter.
CapSmall == 6

CapMargin == 1

CapLengths ==
    (0..CapSmall) \cup ((CHAR_LIMIT - 1 - CapMargin)..(CHAR_LIMIT - 1 + CapMargin))

CapTails == {<<>>, <<" ", "\n">>, <<" ", "N", "x">>}

CapDocs ==
    {RunLengths(<<"y", " ", "T">>)
       \o (IF n > 0 THEN <<[c |-> "x", n |-> n]>> ELSE <<>>)
       \o RunLengths(tail) : n \in CapLengths, tail \in CapTails}

CapInit ==
    /\ docRuns \in CapDocs
    /\ capped = NotCapped
    /\ fullText = <<>>
    /\ chapterTitle = <<"T">>
    /\ nextChapterTitle \in {<<>>, <<"N">>}
    /\ located = NotFound
    /\ lpc = "ready"
    /\ built = 0
    /\ SvcIdle
    /\ AppIdle
    /\ AudIdle
    /\ TtsIdle

LocateLong ==
    /\ lpc = "ready"
    /\ docRuns # <<>>
    /\ capped' = Capped(findChapterText(Expand(docRuns), chapterTitle, nextChapterTitle))
    /\ lpc' = "done"
    /\ UNCHANGED <<fullText, chapterTitle, nextChapterTitle, located, built, docRuns>>
    /\ UNCHANGED <<svcVars, appVars, audVars, ttsVars>>

CapNext == LocateLong

SpecCap == CapInit /\ [][CapNext]_vars

\* analyzeChapterContent applied to chapter texts of every length around its
\* thresholds, with and without a document.
Margin == 3

TextLengths == {0, 199, 200} \cup ((100 - Margin)..(100 + Margin))

SvcInit ==
    /\ aChapterText \in {null} \cup {Fill(n) : n \in TextLengths}
    /\ aPdfBase64 \in {"", convertFileToBase64("text.pdf")}
    /\ aType \in AnalysisType
    /\ aOutcome = NoOutcome
    /\ apc = "ready"
    /\ LocIdle
    /\ AppIdle
    /\ AudIdle
    /\ TtsIdle

Analyze ==
    /\ apc = "ready"
    /\ aOutcome' = analyzeChapterContent(One, aChapterText, aType, aPdfBase64)
    /\ apc' = "done"
    /\ UNCHANGED <<aChapterText, aPdfBase64, aType>>
    /\ UNCHANGED <<locVars, appVars, audVars, ttsVars>>

SvcNext == Analyze

SpecAnalyze == SvcInit /\ [][SvcNext]_vars

\* The App: the variant is fixed at construction.
Init ==
    /\ \E v \in {"single", "library"} : AppStart(v)
    /\ LocIdle
    /\ SvcIdle
    /\ AudIdle
    /\ TtsIdle

Next ==
    \/ \E f \in Files : HandleFileSelect(f)
    \/ \E u \in uploads : ConvertResolves(u)
    \/ \E u \in uploads : ExtractResolves(u)
    \/ \E u \in uploads : IdentifyResolves(u)
    \/ \E u \in uploads : UploadFails(u)
    \/ \E i \in 1..Len(sessions) : SwitchSession(i)
    \/ \E i \in 1..Len(sessions) : RemoveSession(i)
    \/ ToggleLibrary
    \/ AddNewBook
    \/ HandleUploadNew
    \/ LogoClick
    \/ HandleReset
    \/ \E i \in 1..Len(chapters), type \in Types : SelectChapter(i, type)
    \/ Regenerate
    \/ OnBack
    \/ DismissError
    \/ \E a \in analyses : AnalysisResolves(a)
    \/ \E a \in analyses : AnalysisRejects(a)

Spec == Init /\ [][Next]_vars

\* The AnalysisView: the version is fixed at construction.
AudInit ==
    /\ \E v \in {"basic", "enhanced"} : AudStart(v)
    /\ LocIdle
    /\ SvcIdle
    /\ AppIdle
    /\ TtsIdle

AudNext ==
    \/ HandlePlay
    \/ HandlePause
    \/ HandleStop
    \/ \E k \in ended : OnEnded(k)
    \/ PlayAudio
    \/ PauseAudio
    \/ \E time \in 0..BufferDuration : HandleSeekSlider(time)
    \/ \E seconds \in {-10, 10} : Skip(seconds)
    \/ \E p \in speech : SpeechResolves(p)
    \/ \E p \in speech : SpeechRejects(p)
    \/ \E a \in 0..MaxTexts : AnalysisEffect(a)
    \/ Unmount
    \/ Tick

SpecAudio == AudInit /\ [][AudNext]_vars

\* generateSpeech applied to cleaned texts of up to MaxSentences pieces: a
\* sentence of 2000 characters, a sentence longer than MAX_CHUNK_LENGTH,
\* words without a terminator, terminators alone and white space.
MaxSentences == 3

SentencePieces ==
    {Fill(1999) \o <<".">>, Fill(MAX_CHUNK_LENGTH) \o <<"!">>, <<" ", "x", "x">>,
     <<".", ".", ".">>, <<" ">>}

RECURSIVE Flatten(_)
Flatten(list) == IF list = <<>> THEN <<>> ELSE Head(list) \o Flatten(Tail(list))

SafeTexts ==
    {Flatten(ps) : ps \in UNION {[1..n -> SentencePieces] : n \in 1..MaxSentences}}

\* The audio a response may carry.
Samples == {<<7>>, <<255, 0>>, <<1, 128, 64>>}

TtsInit ==
    /\ \E text \in SafeTexts : SpeechStart(text, Chunked(text))
    /\ LocIdle
    /\ SvcIdle
    /\ AppIdle
    /\ AudIdle

TtsNext ==
    \/ SkipChunk
    \/ RequestChunk
    \/ \E a \in {NoAudio} \cup {btoa(s) : s \in Samples} : ChunkResponds(a)
    \/ ChunkFails
    \/ ReturnSpeech

SpecSpeech == TtsInit /\ [][TtsNext]_vars

-----------------------------------------------------------------------------
(* Properties of the chapter locator.                                       *)

\* Every position of s at which the whitespace-tolerant, case-insensitive
\* pattern of title t matches.
MatchPositions(t, s) ==
    {i \in 0..Len(s) : MatchEnd(createFlexiblePattern(t), 1, s, i) # -1}

FirstAtOrAfter(O, from) ==
    IF {i \in O : i >= from} = {} THEN -1 ELSE SetMin({i \in O : i >= from})

\* The occurrences of t in s as a left-to-right scan counts them: the leftmost
\* match, then the leftmost match that begins where the previous one ended or
\* later, and so on.
RECURSIVE OccurrencesFrom(_, _, _, _)
OccurrencesFrom(P, t, s, from) ==
    LET m == FirstAtOrAfter(P, from)
    IN  IF m = -1 THEN {}
        ELSE {m} \cup OccurrencesFrom(P, t, s, MatchEnd(createFlexiblePattern(t), 1, s, m))

Occurrences(t, s) == OccurrencesFrom(MatchPositions(t, s), t, s, 0)

\* Offset i lies within the first 5% of the characters of s.
InFirst5Percent(i, s) == 20 * i < Len(s)

\* The first (n = 1) or second (n = 2) offset of a set of offsets.
Nth(O, n) == IF n = 1 THEN SetMin(O) ELSE SetMin(O \ {SetMin(O)})

LocDone == lpc = "done" /\ located.kind # "hang"

\* C2: table-of-contents avoidance of tier 1. When the title occurs at least
\* twice and its first occurrence lies within the first 5% of the document, the
\* returned span starts at the second occurrence; with at least one occurrence
\* in every other case it starts at the first.
Thm_C2 ==
    LET O == Occurrences(chapterTitle, fullText)
    IN  (LocDone /\ O # {}) =>
            /\ located.kind = "text"
            /\ located.startIndex =
                  IF Cardinality(O) >= 2 /\ InFirst5Percent(Nth(O, 1), fullText)
                  THEN Nth(O, 2) ELSE Nth(O, 1)

\* C2's case: two occurrences, the first one early, the span from the second.
Wit_C2 ==
    LET O == Occurrences(chapterTitle, fullText)
    IN  /\ LocDone
        /\ Cardinality(O) >= 2
        /\ InFirst5Percent(Nth(O, 1), fullText)
        /\ located.startIndex = Nth(O, 2)
        /\ Nth(O, 2) > 1

\* The occurrences of the title outside the first 5% (the body) and inside it.
BodyOccurrences(t, s) == {i \in Occurrences(t, s) : ~InFirst5Percent(i, s)}

TocOccurrences(t, s) == {i \in Occurrences(t, s) : InFirst5Percent(i, s)}

\* C3 as stated: a title that occurs in the body yields a span that begins at
\* the first body occurrence, whatever the number of occurrences inside the
\* first 5%.
Cex_C3 ==
    LET B == BodyOccurrences(chapterTitle, fullText)
    IN  (LocDone /\ B # {}) =>
            (located.kind = "text" /\ located.startIndex = Nth(B, 1))

\* C3 amended: a title that occurs in the body, with at most one occurrence
\* inside the first 5%, yields a span that begins at the first body occurrence;
\* with two or more occurrences inside the first 5% the span begins at the
\* second of those.
Thm_C3 ==
    LET B == BodyOccurrences(chapterTitle, fullText)
        T == TocOccurrences(chapterTitle, fullText)
    IN  (LocDone /\ B # {}) =>
            /\ located.kind = "text"
            /\ Cardinality(T) <= 1 => located.startIndex = Nth(B, 1)
            /\ Cardinality(T) >= 2 => located.startIndex = Nth(T, 2)

\* C3's case: one occurrence in the first 5% skipped for the body occurrence.
Wit_C3 ==
    LET B == BodyOccurrences(chapterTitle, fullText)
        T == TocOccurrences(chapterTitle, fullText)
    IN  /\ LocDone
        /\ B # {}
        /\ Cardinality(T) = 1
        /\ located.startIndex = Nth(B, 1)

\* The matches of the next chapter's title at or after the search offset.
NextMatches ==
    {i \in MatchPositions(nextChapterTitle, fullText) :
        i >= located.startIndex + Min(Len(chapterTitle), 50)}

\* C4: boundary exclusivity. With a next-chapter title that is matched at or
\* after start + min(len(chapterTitle), 50), the span ends before the first
\* such match and holds no text from that offset on; otherwise it extends to
\* the end of the document; start < end in every case.
Thm_C4 ==
    (LocDone /\ located.kind = "text") =>
        /\ located.startIndex < located.endIndex
        /\ (nextChapterTitle # <<>> /\ NextMatches # {}) =>
              /\ located.endIndex = SetMin(NextMatches)
              /\ located.text = Trim(Slice(fullText, located.startIndex, SetMin(NextMatches)))
        /\ (nextChapterTitle = <<>> \/ NextMatches = {}) =>
              located.text = Trim(Slice(fullText, located.startIndex, Len(fullText)))

\* C4's case: the next title matched inside the document cuts the span short.
Wit_C4 ==
    /\ LocDone
    /\ located.kind = "text"
    /\ nextChapterTitle # <<>>
    /\ NextMatches # {}
    /\ located.endIndex < Len(fullText)
    /\ located.endIndex > located.startIndex + 1

\* The first 8 pieces of the title as split at white space, as a title.
FirstEightWords(t) ==
    JoinSpace(SubSeq(SplitWhiteSpace(t), 1, Min(8, Len(SplitWhiteSpace(t)))))

-----------------------------------------------------------------------------
(* Properties of analyzeChapterContent and of the App.                      *)

\* C7: analyzeChapterContent sends a text of at least 100 characters on the
\* text path; with a shorter text or none it sends the whole document when
\* there are document bytes, and otherwise throws without a request.
Cex_C7 ==
    apc = "done" =>
        IF aChapterText # null /\ Len(aChapterText) >= 100
        THEN aOutcome.kind = "text" /\ aOutcome.text = aChapterText
        ELSE IF aPdfBase64 # ""
        THEN aOutcome.kind = "document" /\ aOutcome.inlineData = aPdfBase64
        ELSE aOutcome.kind = "throw"

\* C1: whenever the analysis screen shows a text, that text answers the
\* request handleChapterAnalysis issued last.
Cex_C1 ==
    (step = "analysis" /\ selectedChapter # NoChapter /\ ~loading
        /\ currentAnalysis # EmptyText)
    => currentAnalysis = AnalysisOf(lastCall.n)

\* C6: a call of handleChapterAnalysis in text mode raises no error; when
\* findChapterText gave nothing or fewer than 200 characters the request
\* carries the document and no chapter text, and otherwise it is made on the
\* text path with exactly the located text.
Cex_C6 ==
    (lastCall.n > 0 /\ ~lastCall.isScannedMode) =>
        IF lastCall.located.kind = "text" /\ Len(lastCall.located.text) >= 200
        THEN lastCall.request.kind = "text"
             /\ lastCall.request.text = lastCall.located.text
        ELSE lastCall.request.kind = "document"
             /\ lastCall.request.inlineData # ""

\* The scanned mode of file f by the two criteria: the extractor's flag, or an
\* extracted text under 500 characters.
DecidedScanned(f) ==
    extractTextFromPDF(FilePages(f)).isScanned
        \/ Len(extractTextFromPDF(FilePages(f)).text) < 500

\* C8: the identification request of every upload carries the document bytes
\* and no text when the scanned mode decided for the upload is true, and the
\* first 60000 characters of the extracted text and no bytes when it is false.
Cex_C8 ==
    \A u \in uploads :
        u.pc = "identify" =>
            IF DecidedScanned(u.file)
            THEN u.request.inlineData = convertFileToBase64(u.file)
                 /\ u.request.text = <<>>
            ELSE u.request.inlineData = ""
                 /\ u.request.text =
                       Slice(extractTextFromPDF(FilePages(u.file)).text, 0, 60000)

\* C9: the scanned flag decided for an upload, and the flag stored in every
\* BookSession, is true exactly when the extractor flags the document or the
\* extracted text is shorter than 500 characters.
Cex_C9 ==
    /\ \A u \in uploads : u.pc = "identify" => (u.mode <=> DecidedScanned(u.file))
    /\ \A i \in 1..Len(sessions) :
          sessions[i].isScannedMode <=> DecidedScanned(sessions[i].fileName)

\* C10: an analysis request for a book whose scanned mode is true bypasses
\* findChapterText and carries the book's own document; a text-path request
\* is issued only for a book whose scanned mode is false, with a text located
\* in that book's own extracted text.
Cex_C10 ==
    (lastCall.n > 0 /\ lastCall.book # "") =>
        /\ DecidedScanned(lastCall.book) =>
              /\ lastCall.located.kind = "bypassed"
              /\ lastCall.request.kind = "document"
              /\ lastCall.request.inlineData = convertFileToBase64(lastCall.book)
        /\ lastCall.request.kind = "text" =>
              /\ ~DecidedScanned(lastCall.book)
              /\ \E n \in {One, Two, <<>>} :
                    lastCall.request.text =
                        findChapterText(extractTextFromPDF(FilePages(lastCall.book)).text,
                                        lastCall.request.title, n).text

-----------------------------------------------------------------------------
(* Properties of the session library and of abandoned requests.             *)

\* s without its i-th element.
Without(s, i) == SubSeq(s, 1, i - 1) \o SubSeq(s, i + 1, Len(s))

\* The step removes sessions from the library.
Removal == Len(sessions') < Len(sessions)

\* The step removes the active session: no session of its id is left.
RemovalOfActive ==
    /\ Removal
    /\ activeSessionId # 0
    /\ \A i \in 1..Len(sessions') : sessions'[i].id # activeSessionId

\* C11: removing the active session makes the first remaining session active
\* and shows its chapter list, or leaves the upload screen without an active
\* session when none remains; and the chapter or analysis screen never shows a
\* book of which no session is left.
Cex_C11 ==
    [][variant = "library" =>
          /\ RemovalOfActive =>
                IF Len(sessions') > 0
                THEN /\ activeSessionId' = sessions'[1].id
                     /\ step' = "chapters"
                     /\ chapters' = sessions'[1].chapters
                ELSE /\ activeSessionId' = 0
                     /\ step' = "upload"
          /\ step' \in {"chapters", "analysis"} =>
                \E i \in 1..Len(sessions') : sessions'[i].fileName = shownBook']_vars

\* C12: removing a session other than the active one leaves the active
\* session, the screen, the selected chapter, the analysis and the loaded
\* text, bytes and chapters as they are, removes exactly that session and
\* keeps the order of the others.
Cex_C12 ==
    [][(Removal /\ ~RemovalOfActive) =>
          /\ UNCHANGED <<activeSessionId, step, selectedChapter, currentAnalysis,
                         pdfText, pdfBase64, chapters>>
          /\ \E i \in 1..Len(sessions) : sessions' = Without(sessions, i)]_vars

\* C19: when an analysis completes or fails after the analysis screen was
\* left, or an upload after the upload screen was left, the screen, the error
\* banner and the active session stay as they are.
Cex_C19 ==
    [][(\/ analyses' # analyses /\ analyses' \subseteq analyses /\ step # "analysis"
        \/ uploads' # uploads /\ uploads' \subseteq uploads /\ step # "upload")
       => UNCHANGED <<step, error, activeSessionId>>]_vars

-----------------------------------------------------------------------------
(* Properties of the audio engine of the AnalysisView.                      *)

PauseCalls == {"handlePause", "pauseAudio"}

PlayCalls == {"handlePlay", "playAudio"}

\* C13: pause and resume keep the playback position in both versions of the
\* view: a pause halts the source node held and records the position it has
\* played to, and a play that follows a pause made before the end of the
\* buffer starts its new source node at exactly that position.
Cex_C13 ==
    [][/\ (op' \in PauseCalls /\ op \notin PauseCalls /\ sourceNodeRef # 0) =>
            /\ nodes'[sourceNodeRef].halted
            /\ pauseOffsetRef' = Position(nodes, sourceNodeRef)
       /\ (/\ op \in PauseCalls /\ op' \in PlayCalls
           /\ Len(nodes') = Len(nodes) + 1
           /\ nodes[Len(nodes)].playedTo < BufferDuration) =>
            nodes'[Len(nodes')].offset = nodes[Len(nodes)].playedTo]_vars

\* C14: in the enhanced view a seek made while playing halts the source node
\* held and, within the same step, starts a new one at the requested time,
\* which lies within [0, duration]: the engine is playing before and after,
\* never paused or idle in between. A seek made while not playing moves the
\* offset to the requested time and starts nothing.
Thm_C14 ==
    [][(version = "enhanced" /\ op' = "seekAudio"
        /\ ctxTime' = ctxTime /\ speech' = speech) =>
          IF isPlaying
          THEN /\ sourceNodeRef # 0
               /\ \A k \in 1..Len(nodes) : nodes'[k].halted
               /\ isPlaying'
               /\ Len(nodes') = Len(nodes) + 1
               /\ sourceNodeRef' = Len(nodes')
               /\ currentTime' \in 0..duration
               /\ pauseOffsetRef' = currentTime'
               /\ nodes'[Len(nodes')].offset = currentTime'
               /\ nodes'[Len(nodes')].startedAt = ctxTime
          ELSE /\ ~isPlaying'
               /\ Len(nodes') = Len(nodes)
               /\ \A k \in 1..Len(nodes) : nodes'[k].halted
               /\ pauseOffsetRef' = currentTime']_vars

\* A seek made while playing has restarted playback further on in the buffer.
Wit_C14 ==
    /\ version = "enhanced" /\ op = "seekAudio"
    /\ isPlaying
    /\ Len(nodes) >= 2
    /\ nodes[Len(nodes) - 1].halted
    /\ nodes[Len(nodes) - 1].playedTo < nodes[Len(nodes)].offset
    /\ ~nodes[Len(nodes)].halted
    /\ nodes[Len(nodes)].startedAt = ctxTime

\* C15: playback that reaches the end of its buffer leaves the engine idle
\* with resume offset 0, and the end-of-playback handler (onended in the
\* basic view, updateProgress in the enhanced one) changes neither the state
\* nor the recorded offset of a playback that was paused before the end.
Cex_C15 ==
    [][/\ (/\ version = "enhanced" /\ isPlaying /\ ctxTime' # ctxTime
           /\ sourceNodeRef # 0 /\ RunsOut(nodes, sourceNodeRef, ctxTime')) =>
            (~isPlaying' /\ pauseOffsetRef' = 0)
       /\ (version = "enhanced" /\ ~isPlaying /\ ctxTime' # ctxTime) =>
            UNCHANGED <<isPlaying, pauseOffsetRef>>
       /\ \A k \in ended :
            (version = "basic" /\ ended' = ended \ {k}) =>
               /\ (k = sourceNodeRef /\ isPlaying /\ nodes[k].playedTo = BufferDuration) =>
                     (~isPlaying' /\ ~isPaused' /\ pauseOffsetRef' = 0)
               /\ (isPaused /\ nodes[k].playedTo < BufferDuration) =>
                     UNCHANGED <<isPlaying, isPaused, pauseOffsetRef>>]_vars

\* A step of a handler that stops playback: handleStop, the effect on
\* [analysis], or the cleanup on unmount.
StopStep ==
    \/ op' = "handleStop" /\ op # "handleStop"
    \/ analysis' # analysis
    \/ mounted' # mounted

\* C16: stop is idempotent. Every stop leaves the engine idle (not playing,
\* not paused), holding no source node, with resume offset 0; and a stop that
\* follows a stop made from the playing state, with no playback in between,
\* changes nothing of the engine.
Thm_C16 ==
    [][StopStep =>
          /\ ~isPlaying' /\ ~isPaused' /\ sourceNodeRef' = 0 /\ pauseOffsetRef' = 0
          /\ stops' = 2 =>
                UNCHANGED <<isPlaying, isPaused, sourceNodeRef, pauseOffsetRef,
                            startTimeRef, currentTime, nodes, ended>>]_vars

\* Playback was stopped in the middle of the buffer and stopped again.
Wit_C16 ==
    /\ stops = 2
    /\ op \in StopCalls
    /\ Len(nodes) >= 1
    /\ nodes[Len(nodes)].halted /\ ~nodes[Len(nodes)].connected
    /\ nodes[Len(nodes)].playedTo \in 1..(BufferDuration - 1)
    /\ ~isPlaying /\ ~isPaused /\ sourceNodeRef = 0 /\ pauseOffsetRef = 0

\* C17: while the view is mounted, the decoded buffer it caches and every
\* source node that is playing were synthesised from the analysis text the
\* view is showing.
Cex_C17 ==
    mounted =>
       /\ audioBuffer # 0 => audioBuffer = analysis
       /\ \A k \in 1..Len(nodes) :
             (~nodes[k].halted /\ nodes[k].connected) => nodes[k].buffer = analysis

\* The source nodes of ns that sound: started, not halted, connected.
Sounding(ns) == {k \in 1..Len(ns) : ~ns[k].halted /\ ns[k].connected}

\* C18: no overlapping audio. While the context is open at most one source
\* node sounds; the engine holds no source node unless it is playing; and a
\* new source node is created only once every earlier one has halted.
Cex_C18 ==
    [][/\ ~ctxClosed' => Cardinality(Sounding(nodes')) <= 1
       /\ ~isPlaying' => sourceNodeRef' = 0
       /\ Len(nodes') > Len(nodes) =>
             \A k \in 1..Len(nodes) : nodes'[k].halted]_vars

-----------------------------------------------------------------------------
(* Properties of the request loop of generateSpeech.                        *)

\* The sample bytes of the first n responses, in the order of their arrival.
RECURSIVE SamplesInOrder(_)
SamplesInOrder(n) ==
    IF n = 0 THEN <<>>
    ELSE SamplesInOrder(n - 1) \o
         (IF answers[n] = NoAudio THEN <<>> ELSE atob(answers[n]))

\* The chunks the loop has reached.
Reached ==
    IF tpc = "loop" \/ speechResult.kind = "return" \/ issued = <<>>
    THEN chunkIdx - 1 ELSE chunkIdx

RequestFailed == speechResult.kind = "throw" /\ speechResult.message = "request failed"

\* C20: within one call of generateSpeech the chunks with text are requested
\* in the order of the text, at most one request is in flight and a request
\* is sent only after the response to the one before it has arrived; the
\* audio returned is the sample bytes of the responses joined in that order.
Thm_C20 ==
    /\ Cardinality(inFlight) <= 1
    /\ \A i \in 1..(Len(issued) - 1) : issued[i] < issued[i + 1]
    /\ {issued[i] : i \in 1..Len(issued)} =
          {k \in 1..Min(Reached, Len(chunks)) : Trim(chunks[k]) # <<>>}
    /\ inFlight # {} => inFlight = {issued[Len(issued)]}
    /\ Len(answers) =
          Len(issued) - Cardinality(inFlight) - (IF RequestFailed THEN 1 ELSE 0)
    /\ speechResult.kind = "return" =>
          /\ Len(issued) = Cardinality({k \in 1..Len(chunks) : Trim(chunks[k]) # <<>>})
          /\ atob(speechResult.base64) = SamplesInOrder(Len(answers))

\* A call over three chunks has returned the audio of three different
\* responses.
Wit_C20 ==
    /\ speechResult.kind = "return"
    /\ issued = <<1, 2, 3>>
    /\ \A i \in 1..3 : answers[i] # NoAudio
    /\ answers[1] # answers[2] /\ answers[2] # answers[3] /\ answers[1] # answers[3]

-----------------------------------------------------------------------------
(* Properties of the cap and of the termination of the chapter locator.     *)

\* The span of the document between the start and the end detected.
CapSpan == SubSeq(Expand(docRuns), capped.startIndex + 1, capped.endIndex)

\* C26: the text findChapterText returns is cut from the span between the
\* start and the end it detected: a span longer than 1,000,000 characters
\* gives its first 1,000,000 characters followed by the truncation marker, a
\* span within the cap gives the whole span; either way the result has no
\* leading or trailing white space.
Thm_C26 ==
    (lpc = "done" /\ capped.kind = "text") =>
       /\ IF capped.endIndex - capped.startIndex > 1000000
          THEN capped.runs =
                  RunLengths(SubSeq(CapSpan, 1, 1000000) \o TruncationMarker)
          ELSE capped.runs = RunLengths(Trim(CapSpan))
       /\ capped.runs # <<>> =>
             /\ ~IsSpace(capped.runs[1].c)
             /\ ~IsSpace(capped.runs[Len(capped.runs)].c)

\* A chapter of more than 1,000,000 characters was located and truncated.
Wit_C26 ==
    /\ lpc = "done" /\ capped.kind = "text"
    /\ capped.endIndex - capped.startIndex > 1000000
    /\ Len(Expand(capped.runs)) = 1000000 + Len(TruncationMarker)

\* C27: every call of findChapterText ends and returns a span or not-found,
\* whatever the document and the titles, an empty or blank chapter title
\* included.
Cex_C27 ==
    lpc = "done" => located.kind \in {"text", "null"}


-----------------------------------------------------------------------------
\* Properties of the chunks of generateSpeech.

\* C21: no chunk sent to the speech model is longer than MAX_CHUNK_LENGTH
\* characters, and every chunk but the last ends right after one of '.', '!'
\* and '?', for every cleaned text, one with a single sentence longer than the
\* ceiling included.
Cex_C21 ==
    /\ \A n \in 1..Len(issued) : Len(chunks[issued[n]]) <= MAX_CHUNK_LENGTH
    /\ \A k \in 1..(Len(chunks) - 1) :
          /\ chunks[k] # <<>>
          /\ chunks[k][Len(chunks[k])] \in Terminators

\* C22: the chunks, one after the other in order, are the cleaned text, so
\* that nothing of it is left out, also when its last sentence has no
\* terminator or when it begins with punctuation.
Cex_C22 == tpc # "idle" => Flatten(chunks) = safeText

\* C23: generateSpeech returns audio only when every response to its
\* requests carried audio data: the returned audio has one segment for every
\* chunk with text.
Cex_C23 ==
    speechResult.kind = "return" =>
        /\ \A i \in 1..Len(answers) : answers[i] # NoAudio
        /\ Len(audioSegments) =
              Cardinality({k \in 1..Len(chunks) : Trim(chunks[k]) # <<>>})

-----------------------------------------------------------------------------
\* Properties of the screens under requests in flight.

\* C24: when an analysis request fails, by a rejection of the remote call or
\* for want of content, the view is the chapter list of the book the request
\* was made for, with its chapters, the error banner set, loading cleared and
\* no analysis text.
Cex_C24 ==
    [][/\ \A a \in analyses :
             AnalysisRejects(a) =>
                 /\ step' = "chapters" /\ error' # "" /\ ~loading'
                 /\ currentAnalysis' = EmptyText
                 /\ shownBook' = a.book
                 /\ chapters' # <<>>
       /\ (nAnalyses' = nAnalyses + 1 /\ lastCall'.request.kind = "throw") =>
                 /\ step' = "chapters" /\ error' # "" /\ ~loading'
                 /\ currentAnalysis' = EmptyText
                 /\ chapters' # <<>>]_vars

\* The view as handleReset leaves it, the error banner aside.
ResetView ==
    /\ step = "upload"
    /\ pdfText = <<>> /\ pdfBase64 = "" /\ chapters = <<>>
    /\ selectedChapter = NoChapter /\ currentAnalysis = EmptyText
    /\ ~isScannedMode

\* C25: handleReset of the single-session App leaves the upload screen with
\* text, bytes, chapters, selected chapter, analysis, error and scanned
\* flag empty, and while no upload is in flight (no file was selected since)
\* the view stays so, whatever request of the previous book is in flight.
Cex_C25 ==
    [][/\ HandleReset => (ResetView' /\ error' = "")
       /\ (variant = "single" /\ ResetView /\ uploads = {}) => ResetView']_vars

\* C28: in the library App, while a session is active the text, the bytes,
\* the scanned flag and the chapters of the view are those stored in the
\* active session.
Cex_C28 ==
    (variant = "library" /\ activeSessionId # 0) =>
        \E i \in 1..Len(sessions) :
            /\ sessions[i].id = activeSessionId
            /\ pdfText = sessions[i].pdfText
            /\ pdfBase64 = sessions[i].pdfBase64
            /\ isScannedMode = sessions[i].isScannedMode
            /\ chapters = sessions[i].chapters

\* C29: in the single-session App, while the chapter list or the analysis
\* screen is shown, the text, the bytes, the scanned flag and the chapters
\* of the view are those of one uploaded file, and no call of
\* handleChapterAnalysis fails for want of content.
Cex_C29 ==
    variant = "single" =>
        /\ step \in {"chapters", "analysis"} =>
              \E f \in Files :
                  /\ pdfBase64 = convertFileToBase64(f)
                  /\ pdfText = extractTextFromPDF(FilePages(f)).text
                  /\ isScannedMode = DecidedScanned(f)
                  /\ chapters = IdentifiedChapters(f)
        /\ lastCall.request.kind # "throw"
\* C30: loading is true while the operation started last awaits its result:
\* while the latest upload is in flight and no analysis was started since,
\* and the analysis screen never shows an empty analysis with loading false
\* while the latest analysis request is in flight.
Cex_C30 ==
    /\ (nAnalyses = 0 /\ \E u \in uploads : u.id = nUploads) => loading
    /\ ~(/\ step = "analysis" /\ ~loading /\ currentAnalysis = EmptyText
         /\ \E a \in analyses : a.id = nAnalyses)

====
